---- MODULE Spec2Model ----
(***************************************************************************)
(* The Openctrol WebSocket input client (OpenctrolWsClient, ws.py) with    *)
(* the session cache it shares with the integration's services            *)
(* (hass.data["openctrol"], __init__.py), as a state machine.             *)
(*                                                                         *)
(* One step of the model is one run of the event loop between two awaits:  *)
(* the public operations (async_connect, async_close,                      *)
(* async_send_pointer_event, async_send_key_combo) are cut at their        *)
(* suspension points (create session, ws_connect, send_str, sleep, the     *)
(* await of the cancelled receive task); everything between two awaits is  *)
(* one atomic action.  The receive loop is a task of its own.  The callers *)
(* of the client run one public operation at a time; the receive loop, the *)
(* peer and the session services run next to it.                           *)
(***************************************************************************)
EXTENDS Integers, Sequences, FiniteSets, TLC

----------------------------------------------------------------------------
(* Bounds of the model *)

\* socket objects alive at a time (a socket nothing refers to any more is
\* collected and its slot is free again)
SocketSlots == 2
\* receive-loop task objects alive at a time
TaskSlots == 2
\* sessions the agent creates in one behaviour
MaxSessions == 2
\* operations a caller calls in a row over one wire log
MaxCalls == 2
\* binary messages the receive loop handles in one behaviour
MaxFrames == 2

----------------------------------------------------------------------------
(* Program constants *)

\* max_retries of the connect loop of a send operation
max_retries == 3
\* the config entry the client was constructed for (entry.entry_id)
ClientEntry == 1
\* the host (host+port) the client was constructed for
ClientHost == 1

\* the config entries set up in hass.data["openctrol"], in insertion order
Entries == 1..2

LegacyPath == "/api/v1/rd/session"
SessionPath == "/ws/desktop"

\* None / "" for a URL
NoUrl == [path |-> "", host |-> 0, token |-> 0]
\* ws://host:port/ws/desktop?token=... as the agent hands it out with a session
SessionUrl(h, sid) == [path |-> SessionPath, host |-> h, token |-> sid]
\* None for a session dict
NoSession == [session_id |-> 0, websocket_url |-> NoUrl]

\* the explicit URLs a caller passes to async_connect
ExplicitUrls ==
    { [path |-> LegacyPath, host |-> ClientHost, token |-> 0],
      [path |-> SessionPath, host |-> ClientHost, token |-> 0] }

VARIABLES
    client,         \* the fields of the OpenctrolWsClient instance
    call,           \* the public operation in flight (or the last one) and its locals
    socks,          \* the socket objects alive, by slot
    tasks,          \* the receive-loop task objects alive, by slot
    hass_data,      \* hass.data["openctrol"]: entry id -> entry_data (host
                    \* stands for host, port and the api_client made for
                    \* them, ws_client for the client object of the entry)
    session_dicts,  \* the "sessions" dict objects (entry_data holds a reference)
    created,        \* number of sessions the agent has created
    ended,          \* session ids ended by end_desktop_session
    by_resolver,    \* session ids created by the session resolution of async_connect
    sent,           \* the messages put on the wire, in order, each with the
                    \* socket it went to and the serial of the call it is of
    frames,         \* the binary messages the receive loop has handled, in
                    \* order, each with what the frame callback was called with
    peer            \* a second client instance of the same entry: its
                    \* async_connect in flight

vars == <<client, call, socks, tasks, hass_data, session_dicts, created, ended,
          by_resolver, sent, frames, peer>>

----------------------------------------------------------------------------
(* The client object *)

\* OpenctrolWsClient._ws_url
ws_url == [path |-> LegacyPath, host |-> ClientHost, token |-> 0]

\* OpenctrolWsClient.__init__
NewClient ==
    [ ws |-> 0, connected |-> FALSE, session_id |-> 0, websocket_url |-> NoUrl,
      frame_callback |-> FALSE, receive_task |-> 0, is_deprecated_endpoint |-> FALSE ]

\* A socket is "open", "closing" (close_code is set, closed is still False)
\* or "closed" (closed is True).
\* self._ws.closed, in the socket table sk
WsClosed(sk, s) == sk[s].status = "closed"
\* not self._ws.closed and self._ws.close_code is None
WsVerifiedOpen(sk, s) == sk[s].status = "open"

\* a check that trusts the connected flag
AlreadyConnected_ByFlag(c) == c.connected /\ c.ws # 0

\* async_connect, the check that makes connect a no-op
AlreadyConnected(c) == c.connected /\ c.ws # 0 /\ WsVerifiedOpen(socks, c.ws)

\* async_connect, the reset of a connection that is flagged but not open
ResetStale(c) ==
    IF c.connected /\ c.ws # 0 /\ ~WsVerifiedOpen(socks, c.ws)
    THEN [c EXCEPT !.connected = FALSE, !.ws = 0]
    ELSE c

\* the endpoint type taken from the absence of a resolved websocket_url alone
IsDeprecatedEndpoint_ByPresence(url, websocket_url) == websocket_url = NoUrl

\* the endpoint type async_connect derives from the resolved URL
IsDeprecatedEndpoint(url, websocket_url) ==
    url.path = LegacyPath \/ (websocket_url = NoUrl /\ url = ws_url)

----------------------------------------------------------------------------
(* The session cache *)

\* entry_data.get("sessions", {}) as the ordered items of the dict
SessionsOf(e) == session_dicts[hass_data[e].sessions]

\* the first session of a dict that has a websocket_url, or NoSession
FirstWithUrl(ss) ==
    IF \E i \in 1..Len(ss) : ss[i].websocket_url # NoUrl
    THEN ss[CHOOSE i \in 1..Len(ss) :
              /\ ss[i].websocket_url # NoUrl
              /\ \A j \in 1..(i-1) : ss[j].websocket_url = NoUrl]
    ELSE NoSession

\* async_connect: the entry_data the client looks its sessions up in (0: None)
FindEntryData(entry_id) ==
    IF entry_id \in DOMAIN hass_data THEN entry_id
    ELSE IF DOMAIN hass_data # {}
         THEN CHOOSE e \in DOMAIN hass_data : \A f \in DOMAIN hass_data : e <= f
         ELSE 0

\* async_connect: existing_session, latest_session first, then the sessions dict
ExistingSession(e) ==
    IF e = 0 THEN NoSession
    ELSE IF hass_data[e].latest_session.websocket_url # NoUrl
         THEN hass_data[e].latest_session
         ELSE FirstWithUrl(SessionsOf(e))

\* dict[key] = value on an insertion-ordered dict
DictPut(ss, s) ==
    IF \E i \in 1..Len(ss) : ss[i].session_id = s.session_id
    THEN [i \in 1..Len(ss) |-> IF ss[i].session_id = s.session_id THEN s ELSE ss[i]]
    ELSE Append(ss, s)

\* dict.pop(key, None)
DictPop(ss, sid) == SelectSeq(ss, LAMBDA s : s.session_id # sid)

----------------------------------------------------------------------------
(* Input encoding *)

\* Optional values: None is <<>>, a value v is <<v>>
None == <<>>
Some(v) == <<v>>

\* Numbers are carried in tenths (106 is 10.6).  float(x) keeps the value,
\* int(round(x)) is Python's round-half-to-even, then the integer.
FloatVal(t) == <<"float", t>>
IntVal(n) == <<"int", n>>
\* a conversion that cuts the fraction off (towards minus infinity)
Round_Floor(t) == t \div 10

Round(t) ==
    LET q == t \div 10
        r == t % 10
    IN  IF r < 5 THEN q
        ELSE IF r > 5 THEN q + 1
        ELSE IF q % 2 = 0 THEN q ELSE q + 1

\* a lower() that leaves its argument as it is
Lower_Identity(b) == b

\* str.lower() on the button names and button actions in use
Lower(b) ==
    CASE b = "LEFT" -> "left"
      [] b = "Left" -> "left"
      [] b = "RIGHT" -> "right"
      [] b = "DOWN" -> "down"
      [] b = "UP" -> "up"
      [] OTHER -> b

BlankMsg ==
    [ type |-> "", event |-> "", dx |-> None, dy |-> None, delta_x |-> None,
      delta_y |-> None, button |-> "", action |-> "", key_code |-> 0,
      keys |-> <<>>, flags |-> {} ]

Encoded(ms) == [err |-> "", msgs |-> ms]
Rejected == [err |-> "ValueError", msgs |-> <<>>]

\* a deprecated format that rejects the button event it cannot express
PointerDeprecated_NoButton(a) ==
    CASE a.event_type = "move" ->
            IF a.dx = None \/ a.dy = None THEN Rejected
            ELSE Encoded(<< [BlankMsg EXCEPT !.type = "pointer", !.event = "move",
                               !.dx = FloatVal(a.dx[1]), !.dy = FloatVal(a.dy[1])] >>)
      [] a.event_type = "click" ->
            IF a.button = None THEN Rejected
            ELSE Encoded(<< [BlankMsg EXCEPT !.type = "pointer", !.event = "click",
                               !.button = Lower(a.button[1])] >>)
      [] a.event_type = "scroll" ->
            IF a.dx = None \/ a.dy = None THEN Rejected
            ELSE Encoded(<< [BlankMsg EXCEPT !.type = "pointer", !.event = "scroll",
                               !.dx = FloatVal(a.dx[1]), !.dy = FloatVal(a.dy[1])] >>)
      [] OTHER -> Rejected

\* async_send_pointer_event, deprecated endpoint format
PointerDeprecated(a) ==
    CASE a.event_type = "move" ->
            IF a.dx = None \/ a.dy = None THEN Rejected
            ELSE Encoded(<< [BlankMsg EXCEPT !.type = "pointer", !.event = "move",
                               !.dx = FloatVal(a.dx[1]), !.dy = FloatVal(a.dy[1])] >>)
      [] a.event_type = "click" ->
            IF a.button = None THEN Rejected
            ELSE Encoded(<< [BlankMsg EXCEPT !.type = "pointer", !.event = "click",
                               !.button = Lower(a.button[1])] >>)
      [] a.event_type = "button" ->
            IF a.button = None THEN Rejected
            ELSE Encoded(<< [BlankMsg EXCEPT !.type = "pointer", !.event = "click",
                               !.button = Lower(a.button[1])] >>)
      [] a.event_type = "scroll" ->
            IF a.dx = None \/ a.dy = None THEN Rejected
            ELSE Encoded(<< [BlankMsg EXCEPT !.type = "pointer", !.event = "scroll",
                               !.dx = FloatVal(a.dx[1]), !.dy = FloatVal(a.dy[1])] >>)
      [] OTHER -> Rejected

\* an action that is taken as it is spelled
ButtonAction_Strict(dx) ==
    IF dx # None /\ dx[1] \in {"down", "up"} THEN dx[1] ELSE "down"

\* the action of a button event: dx carries it, anything else defaults to "down"
ButtonAction(dx) ==
    IF dx # None /\ Lower(dx[1]) \in {"down", "up"} THEN Lower(dx[1]) ELSE "down"

\* async_send_pointer_event, session-based endpoint format
PointerSession(a) ==
    CASE a.event_type = "move" ->
            IF a.dx = None \/ a.dy = None THEN Rejected
            ELSE Encoded(<< [BlankMsg EXCEPT !.type = "pointer_move",
                               !.dx = IntVal(Round(a.dx[1])), !.dy = IntVal(Round(a.dy[1]))] >>)
      [] a.event_type = "click" ->
            IF a.button = None THEN Rejected
            ELSE Encoded(<< [BlankMsg EXCEPT !.type = "pointer_button",
                               !.button = Lower(a.button[1]), !.action = "down"],
                            [BlankMsg EXCEPT !.type = "pointer_button",
                               !.button = Lower(a.button[1]), !.action = "up"] >>)
      [] a.event_type = "button" ->
            IF a.button = None THEN Rejected
            ELSE Encoded(<< [BlankMsg EXCEPT !.type = "pointer_button",
                               !.button = Lower(a.button[1]),
                               !.action = ButtonAction(a.dx)] >>)
      [] a.event_type = "scroll" ->
            IF a.dx = None \/ a.dy = None THEN Rejected
            ELSE Encoded(<< [BlankMsg EXCEPT !.type = "pointer_wheel",
                               !.delta_x = IntVal(Round(a.dx[1])),
                               !.delta_y = IntVal(Round(a.dy[1]))] >>)
      [] OTHER -> Rejected

\* async_send_pointer_event: the message(s) for the endpoint format in use
PointerEncode(deprecated, a) ==
    IF deprecated THEN PointerDeprecated(a) ELSE PointerSession(a)

----------------------------------------------------------------------------
(* Key combos *)

VK_CONTROL == 17
VK_MENU == 18
VK_SHIFT == 16
VK_LWIN == 91

Letters ==
    << "A", "B", "C", "D", "E", "F", "G", "H", "I", "J", "K", "L", "M",
       "N", "O", "P", "Q", "R", "S", "T", "U", "V", "W", "X", "Y", "Z" >>
Digits == << "0", "1", "2", "3", "4", "5", "6", "7", "8", "9" >>

\* str.upper() on the key names in use
Upper(k) ==
    CASE k = "ctrl" -> "CTRL"
      [] k = "shift" -> "SHIFT"
      [] k = "a" -> "A"
      [] k = "esc" -> "ESC"
      [] OTHER -> k

\* the mapping dict of _map_key_name_to_code
KeyMapping ==
    [ TAB |-> 9, ENTER |-> 13, ESC |-> 27, ESCAPE |-> 27, SPACE |-> 32,
      BACKSPACE |-> 8, DEL |-> 46, DELETE |-> 46, INSERT |-> 45, HOME |-> 36,
      END |-> 35, PAGEUP |-> 33, PAGEDOWN |-> 34, UP |-> 38, DOWN |-> 40,
      LEFT |-> 37, RIGHT |-> 39, F1 |-> 112, F2 |-> 113, F3 |-> 114, F4 |-> 115,
      F5 |-> 116, F6 |-> 117, F7 |-> 118, F8 |-> 119, F9 |-> 120, F10 |-> 121,
      F11 |-> 122, F12 |-> 123, CTRL |-> 17, CONTROL |-> 17, ALT |-> 18,
      SHIFT |-> 16, WIN |-> 91, WINDOWS |-> 91 ]

IndexIn(seq, x) == CHOOSE i \in 1..Len(seq) : seq[i] = x

\* _map_key_name_to_code: the virtual key code, or 0 for None
MapKeyNameToCode(key_name) ==
    LET key_upper == Upper(key_name)
    IN  IF \E i \in 1..Len(Letters) : Letters[i] = key_upper
        THEN 64 + IndexIn(Letters, key_upper)
        ELSE IF \E i \in 1..Len(Digits) : Digits[i] = key_upper
        THEN 47 + IndexIn(Digits, key_upper)
        ELSE IF key_upper \in DOMAIN KeyMapping THEN KeyMapping[key_upper]
        ELSE 0

\* the modifier a key name stands for ("" when it is no modifier)
ModifierOf(key) ==
    LET key_upper == Upper(key)
    IN  CASE key_upper \in {"CTRL", "CONTROL"} -> "ctrl"
          [] key_upper = "ALT" -> "alt"
          [] key_upper = "SHIFT" -> "shift"
          [] key_upper \in {"WIN", "WINDOWS"} -> "win"
          [] OTHER -> ""

ModifierCode(m) ==
    CASE m = "ctrl" -> VK_CONTROL
      [] m = "alt" -> VK_MENU
      [] m = "shift" -> VK_SHIFT
      [] m = "win" -> VK_LWIN

Reverse(seq) == [i \in 1..Len(seq) |-> seq[Len(seq) + 1 - i]]

\* async_send_key_combo: modifier_flags, as the set of the flags that are True
ModifierFlags(keys) == { ModifierOf(keys[i]) : i \in 1..Len(keys) } \ {""}

\* async_send_key_combo: modifier_key_codes, in input order
ModifierKeyCodes(keys) ==
    LET mods == SelectSeq(keys, LAMBDA k : ModifierOf(k) # "")
    IN  [i \in 1..Len(mods) |-> ModifierCode(ModifierOf(mods[i]))]

\* main_keys with the unknown names kept, as key code 0
MainKeys_KeepsUnknown(keys) ==
    LET others == SelectSeq(keys, LAMBDA k : ModifierOf(k) = "")
    IN  [i \in 1..Len(others) |-> MapKeyNameToCode(others[i])]

\* async_send_key_combo: main_keys, in input order, unknown names dropped
MainKeys(keys) ==
    LET known == SelectSeq(keys, LAMBDA k : ModifierOf(k) = "" /\ MapKeyNameToCode(k) # 0)
    IN  [i \in 1..Len(known) |-> MapKeyNameToCode(known[i])]

\* async_send_key_combo, deprecated format: the name sent for a key code
KeyNameOf(key_code, keys) ==
    CASE key_code = VK_CONTROL -> <<"CTRL">>
      [] key_code = VK_MENU -> <<"ALT">>
      [] key_code = VK_SHIFT -> <<"SHIFT">>
      [] key_code = VK_LWIN -> <<"WIN">>
      [] key_code >= 65 /\ key_code <= 90 -> <<Letters[key_code - 64]>>
      [] key_code >= 48 /\ key_code <= 57 -> <<Digits[key_code - 47]>>
      [] OTHER ->
            IF \E i \in 1..Len(keys) : MapKeyNameToCode(keys[i]) = key_code
            THEN << Upper(keys[CHOOSE i \in 1..Len(keys) :
                          /\ MapKeyNameToCode(keys[i]) = key_code
                          /\ \A j \in 1..(i-1) : MapKeyNameToCode(keys[j]) # key_code]) >>
            ELSE <<>>

RECURSIVE Flatten(_)
Flatten(ss) == IF ss = <<>> THEN <<>> ELSE Head(ss) \o Flatten(Tail(ss))

\* the flag of a key code that is a modifier ("" otherwise)
OwnFlag(key_code) ==
    CASE key_code = VK_CONTROL -> "ctrl"
      [] key_code = VK_MENU -> "alt"
      [] key_code = VK_SHIFT -> "shift"
      [] key_code = VK_LWIN -> "win"
      [] OTHER -> ""

\* a key message that carries every modifier flag of the combo
KeyMsg_OwnFlagToo(key_code, action, flags) ==
    [BlankMsg EXCEPT !.type = "key", !.key_code = key_code, !.action = action,
                     !.flags = flags]

\* async_send_key_combo, session format: one key message
KeyMsg(key_code, action, flags) ==
    [BlankMsg EXCEPT !.type = "key", !.key_code = key_code, !.action = action,
                     !.flags = flags \ {OwnFlag(key_code)}]

\* a key combo that releases the keys in the order it pressed them
KeyEncode_UpInDownOrder(deprecated, keys) ==
    IF keys = <<>> THEN Rejected
    ELSE
    LET modifier_flags == ModifierFlags(keys)
        modifier_key_codes == ModifierKeyCodes(keys)
        main_keys == MainKeys(keys)
        all_keys_down == modifier_key_codes \o main_keys
        all_keys_up == all_keys_down
    IN  IF modifier_key_codes = <<>> /\ main_keys = <<>> THEN Encoded(<<>>)
        ELSE IF deprecated
        THEN Encoded(<< [BlankMsg EXCEPT !.type = "keyboard",
                           !.keys = Flatten([i \in 1..Len(all_keys_down) |->
                                               KeyNameOf(all_keys_down[i], keys)])] >>)
        ELSE Encoded([i \in 1..Len(all_keys_down) |->
                         KeyMsg(all_keys_down[i], "down", modifier_flags)]
                     \o [i \in 1..Len(all_keys_up) |->
                         KeyMsg(all_keys_up[i], "up", modifier_flags)])

\* async_send_key_combo: the messages of a combo for the endpoint format in use
KeyEncode(deprecated, keys) ==
    IF keys = <<>> THEN Rejected
    ELSE
    LET modifier_flags == ModifierFlags(keys)
        modifier_key_codes == ModifierKeyCodes(keys)
        main_keys == MainKeys(keys)
        all_keys_down == modifier_key_codes \o main_keys
        all_keys_up == Reverse(main_keys) \o Reverse(modifier_key_codes)
    IN  IF modifier_key_codes = <<>> /\ main_keys = <<>> THEN Encoded(<<>>)
        ELSE IF deprecated
        THEN Encoded(<< [BlankMsg EXCEPT !.type = "keyboard",
                           !.keys = Flatten([i \in 1..Len(all_keys_down) |->
                                               KeyNameOf(all_keys_down[i], keys)])] >>)
        ELSE Encoded([i \in 1..Len(all_keys_down) |->
                         KeyMsg(all_keys_down[i], "down", modifier_flags)]
                     \o [i \in 1..Len(all_keys_up) |->
                         KeyMsg(all_keys_up[i], "up", modifier_flags)])

\* the arguments of a send call: a pointer event or a key combo
NoArgs == [event_type |-> "", dx |-> None, dy |-> None, button |-> None, keys |-> <<>>]
PointerArgs(t, dx, dy, b) == [NoArgs EXCEPT !.event_type = t, !.dx = dx, !.dy = dy, !.button = b]
KeyArgs(keys) == [NoArgs EXCEPT !.keys = keys]

\* what a send call puts on the wire once the connection is ensured
Encode(op, deprecated, a) ==
    IF op = "send_pointer_event" THEN PointerEncode(deprecated, a)
    ELSE KeyEncode(deprecated, a.keys)

----------------------------------------------------------------------------
(* The public operation in flight *)

\* op: the operation called last; pc: "idle" when none is in flight, "done"
\* when it has just ended, else the await it is suspended at:
\*   "create"  async_connect awaits async_create_desktop_session
\*   "open"    async_connect awaits session.ws_connect
\*   "sleep"   a send operation awaits asyncio.sleep before the next attempt
\*   "send"    a send operation awaits self._ws.send_str
\*   "cancel"  async_close awaits the receive task it has cancelled
\* result: how the last operation ended ("" while one is in flight)
\* arg, url, entry_data: the locals websocket_url (as passed), url and
\* entry_data of async_connect; attempt, args, queue: the locals of a send
\* operation; task: the task async_close awaits.
\* connects, creates and opens count the calls of async_connect, of
\* async_create_desktop_session and of ws_connect the operation has made;
\* reset tells that async_connect found the connected flag stale;
\* session_err is the exception the creation of a session raised ("": none);
\* serial numbers the operations of the caller in the order of their calls.
IdleCall ==
    [ op |-> "", pc |-> "idle", attempt |-> 0, args |-> NoArgs, arg |-> NoUrl,
      url |-> NoUrl, entry_data |-> 0, task |-> 0, queue |-> <<>>, result |-> "",
      connects |-> 0, creates |-> 0, opens |-> 0, reset |-> FALSE,
      session_err |-> "", serial |-> 0 ]

\* a caller starts an operation: the next one after the operation that ended
NewCall(op, args) ==
    [IdleCall EXCEPT !.op = op, !.pc = "", !.args = args,
                     !.serial = call.serial + 1]

\* the operation ends: its locals are gone, what is kept for the caller is
\* what it passed and how it went
Returns(k, result) ==
    [IdleCall EXCEPT !.op = k.op, !.pc = "done", !.result = result,
                     !.args = k.args,
                     !.connects = k.connects, !.creates = k.creates,
                     !.opens = k.opens, !.reset = k.reset,
                     !.serial = k.serial]

SendOps == {"send_pointer_event", "send_key_combo"}

\* a send operation, once the connection is ensured: the final verification,
\* the validation of the arguments and the encoding, up to the first send_str
BuildAndSend(c, k, sk) ==
    IF c.ws = 0 \/ WsClosed(sk, c.ws)
    THEN client' = c /\ call' = Returns(k, "ConnectionFailed")
    ELSE LET enc == Encode(k.op, c.is_deprecated_endpoint, k.args)
         IN  /\ client' = c
             /\ call' = IF enc.err # "" THEN Returns(k, enc.err)
                        ELSE IF enc.msgs = <<>> THEN Returns(k, "ok")
                        ELSE [k EXCEPT !.pc = "send", !.queue = enc.msgs]

\* a retry loop that compares the attempt with max_retries itself
AfterAttempt_OneMore(c, k, sk, ok) ==
    IF ok /\ c.connected /\ c.ws # 0 /\ ~WsClosed(sk, c.ws)
    THEN BuildAndSend(c, k, sk)
    ELSE IF k.attempt < max_retries
    THEN client' = c /\ call' = [k EXCEPT !.pc = "sleep", !.attempt = k.attempt + 1]
    ELSE client' = c /\ call' = Returns(k, "ConnectionFailed")

\* a retry loop that goes on for as long as the connection fails
AfterAttempt_Forever(c, k, sk, ok) ==
    IF ok /\ c.connected /\ c.ws # 0 /\ ~WsClosed(sk, c.ws)
    THEN BuildAndSend(c, k, sk)
    ELSE client' = c /\ call' = [k EXCEPT !.pc = "sleep"]

\* a send operation after the connect attempt of its retry loop has ended
\* (ok: async_connect returned, otherwise it raised)
AfterAttempt(c, k, sk, ok) ==
    IF ok /\ c.connected /\ c.ws # 0 /\ ~WsClosed(sk, c.ws)
    THEN BuildAndSend(c, k, sk)
    ELSE IF k.attempt < max_retries - 1
    THEN client' = c /\ call' = [k EXCEPT !.pc = "sleep", !.attempt = k.attempt + 1]
    ELSE client' = c /\ call' = Returns(k, "ConnectionFailed")

\* async_connect has ended: back in the caller
ConnectEnds(c, k, sk, ok) ==
    IF k.op \in SendOps
    THEN AfterAttempt(c, k, sk, ok)
    ELSE client' = c /\ call' = Returns(k, IF ok THEN "ok" ELSE "ConnectError")

\* an async_connect without the fallback to the fixed endpoint URL
OpenSocket_NoFallback(c, k, websocket_url) ==
    LET url == websocket_url
    IN  /\ client' = [c EXCEPT !.is_deprecated_endpoint =
                                   IsDeprecatedEndpoint(url, websocket_url)]
        /\ call' = [k EXCEPT !.pc = "open", !.url = url, !.opens = k.opens + 1]

\* async_connect from the resolved websocket_url to the await of ws_connect
OpenSocket(c, k, websocket_url) ==
    LET url == IF websocket_url # NoUrl THEN websocket_url ELSE ws_url
    IN  /\ client' = [c EXCEPT !.is_deprecated_endpoint =
                                   IsDeprecatedEndpoint(url, websocket_url)]
        /\ call' = [k EXCEPT !.pc = "open", !.url = url, !.opens = k.opens + 1]

\* an async_connect that returns at once only when no URL is passed
ConnectBegin_ExplicitReconnects(c, k0, websocket_url) ==
    IF AlreadyConnected(c) /\ websocket_url = NoUrl
    THEN ConnectEnds(c, k0, socks, TRUE)
    ELSE LET c1 == ResetStale(c)
             k == [k0 EXCEPT !.arg = websocket_url, !.reset = (c1 # c)]
         IN  IF websocket_url # NoUrl
             THEN OpenSocket(c1, k, websocket_url)
             ELSE LET entry_data == FindEntryData(ClientEntry)
                      existing_session == ExistingSession(entry_data)
                  IN  IF existing_session.websocket_url # NoUrl
                      THEN OpenSocket([c1 EXCEPT !.session_id = existing_session.session_id],
                                      k, existing_session.websocket_url)
                      ELSE /\ client' = c1
                           /\ call' = [k EXCEPT !.pc = "create", !.entry_data = entry_data,
                                                !.creates = k.creates + 1]

\* an async_connect that resolves a session whatever URL it is passed
ConnectBegin_ResolvesAnyway(c, k0, websocket_url) ==
    IF AlreadyConnected(c)
    THEN ConnectEnds(c, k0, socks, TRUE)
    ELSE LET c1 == ResetStale(c)
             k == [k0 EXCEPT !.arg = websocket_url, !.reset = (c1 # c)]
             entry_data == FindEntryData(ClientEntry)
             existing_session == ExistingSession(entry_data)
         IN  IF existing_session.websocket_url # NoUrl
             THEN OpenSocket([c1 EXCEPT !.session_id = existing_session.session_id],
                             k, existing_session.websocket_url)
             ELSE /\ client' = c1
                  /\ call' = [k EXCEPT !.pc = "create", !.entry_data = entry_data,
                                       !.creates = k.creates + 1]

\* async_connect from its first line to its first await
ConnectBegin(c, k0, websocket_url) ==
    IF AlreadyConnected(c)
    THEN ConnectEnds(c, k0, socks, TRUE)
    ELSE LET c1 == ResetStale(c)
             k == [k0 EXCEPT !.arg = websocket_url, !.reset = (c1 # c)]
         IN  IF websocket_url # NoUrl
             THEN OpenSocket(c1, k, websocket_url)
             ELSE LET entry_data == FindEntryData(ClientEntry)
                      existing_session == ExistingSession(entry_data)
                  IN  IF existing_session.websocket_url # NoUrl
                      THEN OpenSocket([c1 EXCEPT !.session_id = existing_session.session_id],
                                      k, existing_session.websocket_url)
                      ELSE /\ client' = c1
                           /\ call' = [k EXCEPT !.pc = "create", !.entry_data = entry_data,
                                                !.creates = k.creates + 1]

\* a connect loop that looks at the socket and not at the connected flag
SendAttempt_TrustsSocket(c, k) ==
    IF c.ws = 0 \/ WsClosed(socks, c.ws)
    THEN ConnectBegin(c, [k EXCEPT !.connects = k.connects + 1], NoUrl)
    ELSE BuildAndSend(c, k, socks)

\* a send operation that checks its arguments before it connects
SendAttempt_ValidatesFirst(c, k) ==
    IF Encode(k.op, TRUE, k.args).err # "" /\ Encode(k.op, FALSE, k.args).err # ""
    THEN client' = c /\ call' = Returns(k, "ValueError")
    ELSE IF ~c.connected \/ c.ws = 0 \/ WsClosed(socks, c.ws)
    THEN ConnectBegin(c, [k EXCEPT !.connects = k.connects + 1], NoUrl)
    ELSE BuildAndSend(c, k, socks)

\* one iteration of the connect loop of a send operation
SendAttempt(c, k) ==
    IF ~c.connected \/ c.ws = 0 \/ WsClosed(socks, c.ws)
    THEN ConnectBegin(c, [k EXCEPT !.connects = k.connects + 1], NoUrl)
    ELSE BuildAndSend(c, k, socks)

----------------------------------------------------------------------------
(* Session resolution *)

\* the REST collaborator: create_session gives a Session, or fails with a
\* limit-reached error or with another error
CreateSessionOutcomes == {"session", "limit_reached", "other"}

\* the Session the agent behind host h hands out as its sid-th session
NewSession(h, sid) == [session_id |-> sid, websocket_url |-> SessionUrl(h, sid)]

\* "Maximum sessions limit" in error_msg or "session_creation_failed" in error_msg
IsLimitError(err) == err = "limit_reached"

\* a store that sets latest_session and leaves the sessions dict alone
StoreSession_LatestOnly(e, session_data) ==
    /\ session_dicts' = session_dicts
    /\ hass_data' = [hass_data EXCEPT ![e].latest_session = session_data]

\* a store that writes the id of the created session into the latest_session
\* that is there
StoreSession_IdOnly(e, session_data) ==
    /\ session_dicts' = [session_dicts EXCEPT ![hass_data[e].sessions] =
                                                  DictPut(@, session_data)]
    /\ hass_data' = [hass_data EXCEPT ![e].latest_session.session_id =
                                          session_data.session_id]

\* the store of a created session in entry_data: the sessions dict and latest_session
StoreSession(e, session_data) ==
    /\ session_dicts' = [session_dicts EXCEPT ![hass_data[e].sessions] =
                                                  DictPut(@, session_data)]
    /\ hass_data' = [hass_data EXCEPT ![e].latest_session = session_data]

\* after a limit error: a session of the entry_data of this client
LimitReuse(e) ==
    IF e = 0 THEN NoSession
    ELSE IF hass_data[e].latest_session # NoSession
    THEN (IF hass_data[e].latest_session.websocket_url # NoUrl
          THEN hass_data[e].latest_session ELSE NoSession)
    ELSE IF SessionsOf(e) # <<>> /\ Head(SessionsOf(e)).websocket_url # NoUrl
    THEN Head(SessionsOf(e))
    ELSE NoSession

\* the "last attempt": the session an entry offers, whichever entry it is
OfferedBy(e) ==
    IF hass_data[e].latest_session.websocket_url # NoUrl
    THEN hass_data[e].latest_session
    ELSE FirstWithUrl(SessionsOf(e))

\* the first entry, in the order of hass.data, that offers a session (0: none)
FirstOffering ==
    IF \E e \in DOMAIN hass_data : OfferedBy(e) # NoSession
    THEN CHOOSE e \in DOMAIN hass_data :
            /\ OfferedBy(e) # NoSession
            /\ \A f \in DOMAIN hass_data : OfferedBy(f) # NoSession => e <= f
    ELSE 0

\* hass.data["openctrol"][self._entry_id].update(entry_data), entry_data of entry f
UpdateEntry(f) ==
    [hass_data EXCEPT ![ClientEntry] =
        [ sessions |-> hass_data[f].sessions,
          host |-> hass_data[f].host,
          ws_client |-> hass_data[f].ws_client,
          latest_session |-> IF hass_data[f].latest_session # NoSession
                             THEN hass_data[f].latest_session
                             ELSE hass_data[ClientEntry].latest_session ]]

\* async_connect resumes from create session with a session
SessionCreated(c, k) ==
    LET session_data == NewSession(ClientHost, created + 1)
    IN  /\ created' = created + 1
        /\ by_resolver' = by_resolver \cup {session_data.session_id}
        /\ IF k.entry_data # 0 THEN StoreSession(k.entry_data, session_data)
           ELSE UNCHANGED <<hass_data, session_dicts>>
        /\ OpenSocket([c EXCEPT !.session_id = session_data.session_id], k,
                      session_data.websocket_url)

\* a handler that goes to the fixed endpoint after any failed creation
SessionFailed_NoReuse(c, k0, err) ==
    /\ UNCHANGED <<created, session_dicts, by_resolver, hass_data>>
    /\ OpenSocket(c, [k0 EXCEPT !.session_err = err], NoUrl)

\* async_connect resumes from create session with an exception: the handler
SessionFailed(c, k0, err) ==
    LET own == IF IsLimitError(err) THEN LimitReuse(k0.entry_data) ELSE NoSession
        f == FirstOffering
        k == [k0 EXCEPT !.session_err = err]
    IN  /\ UNCHANGED <<created, session_dicts, by_resolver>>
        /\ IF own # NoSession
           THEN /\ UNCHANGED hass_data
                /\ OpenSocket([c EXCEPT !.session_id = own.session_id], k,
                              own.websocket_url)
           ELSE IF f # 0
           THEN /\ hass_data' = UpdateEntry(f)
                /\ OpenSocket([c EXCEPT !.session_id = OfferedBy(f).session_id],
                              [k EXCEPT !.entry_data = f], OfferedBy(f).websocket_url)
           ELSE /\ UNCHANGED hass_data
                /\ OpenSocket(c, k, NoUrl)

----------------------------------------------------------------------------
(* Objects: sockets and receive-loop tasks *)

FreeSock == [status |-> "free", deprecated |-> FALSE]
FreeTask == [status |-> "free", sock |-> 0, cancel |-> FALSE]

HasFree(table) == \E i \in DOMAIN table : table[i].status = "free"
FirstFree(table) ==
    CHOOSE i \in DOMAIN table :
        table[i].status = "free" /\ \A j \in DOMAIN table : table[j].status = "free" => i <= j

\* a task object lives while it is not done, while self._receive_task refers
\* to it and while async_close awaits it
CollectTasks(tk, c, k) ==
    [t \in DOMAIN tk |->
        IF tk[t].status = "done" /\ c.receive_task # t /\ k.task # t
        THEN FreeTask ELSE tk[t]]

\* a socket object lives while self._ws or a receive loop refers to it
CollectSocks(sk, c, tk) ==
    [s \in DOMAIN sk |->
        IF c.ws # s /\ \A t \in DOMAIN tk : tk[t].sock # s
        THEN FreeSock ELSE sk[s]]

\* the tables after an action: what nothing refers to any more is gone
Collected(tk, sk) ==
    /\ tasks' = CollectTasks(tk, client', call')
    /\ socks' = CollectSocks(sk, client', tasks')

\* a _start_receiving that makes a new task whatever is recorded
StartReceiving_Always(c, tk) ==
    [ client |-> [c EXCEPT !.receive_task = FirstFree(tk)],
      tasks |-> [tk EXCEPT ![FirstFree(tk)] =
                    [status |-> "scheduled", sock |-> 0, cancel |-> FALSE]] ]

\* _start_receiving: a new task unless one is recorded
StartReceiving(c, tk) ==
    IF c.receive_task # 0
    THEN [client |-> c, tasks |-> tk]
    ELSE [ client |-> [c EXCEPT !.receive_task = FirstFree(tk)],
           tasks |-> [tk EXCEPT ![FirstFree(tk)] =
                         [status |-> "scheduled", sock |-> 0, cancel |-> FALSE]] ]

----------------------------------------------------------------------------
(* Actions: async_connect *)

Idle == call.pc = "idle"

\* a caller calls async_connect(websocket_url)
CallConnect(websocket_url) ==
    /\ Idle
    /\ ConnectBegin(client, NewCall("connect", NoArgs), websocket_url)
    /\ Collected(tasks, socks)
    /\ UNCHANGED <<hass_data, session_dicts, created, ended, by_resolver, sent, frames, peer>>

\* async_create_desktop_session returns or raises
CreateReturns(outcome) ==
    /\ call.pc = "create"
    /\ IF outcome = "session"
       THEN created < MaxSessions /\ SessionCreated(client, call)
       ELSE SessionFailed(client, call, outcome)
    /\ UNCHANGED <<socks, tasks, ended, sent, frames, peer>>

\* session.ws_connect returns an open socket, a socket that is already
\* closed, or raises
OpenReturns(outcome) ==
    /\ call.pc = "open"
    /\ CASE outcome = "open" ->
              /\ HasFree(socks)
              /\ client.frame_callback /\ client.receive_task = 0 => HasFree(tasks)
              /\ LET s == FirstFree(socks)
                     sk == [socks EXCEPT ![s] = [ status |-> "open",
                               deprecated |-> client.is_deprecated_endpoint ]]
                     c1 == [client EXCEPT !.ws = s, !.connected = TRUE,
                                          !.websocket_url = call.url]
                     r == IF c1.frame_callback THEN StartReceiving(c1, tasks)
                          ELSE [client |-> c1, tasks |-> tasks]
                 IN  /\ ConnectEnds(r.client, call, sk, TRUE)
                     /\ Collected(r.tasks, sk)
         [] outcome = "closed" ->
              /\ HasFree(socks)
              /\ LET s == FirstFree(socks)
                     sk == [socks EXCEPT ![s] = [ status |-> "closed",
                               deprecated |-> client.is_deprecated_endpoint ]]
                 IN  /\ ConnectEnds([client EXCEPT !.ws = s, !.connected = FALSE],
                                    call, sk, FALSE)
                     /\ Collected(tasks, sk)
         [] outcome = "error" ->
              /\ ConnectEnds([client EXCEPT !.connected = FALSE], call, socks, FALSE)
              /\ Collected(tasks, socks)
    /\ UNCHANGED <<hass_data, session_dicts, created, ended, by_resolver, sent, frames, peer>>

----------------------------------------------------------------------------
(* Actions: the send operations *)

\* a caller calls async_send_pointer_event(event_type, dx, dy, button)
CallSendPointer(a) ==
    /\ Idle
    /\ SendAttempt(client, NewCall("send_pointer_event", a))
    /\ Collected(tasks, socks)
    /\ UNCHANGED <<hass_data, session_dicts, created, ended, by_resolver, sent, frames, peer>>

\* a caller calls async_send_key_combo(keys)
CallSendKey(keys) ==
    /\ Idle
    /\ SendAttempt(client, NewCall("send_key_combo", KeyArgs(keys)))
    /\ Collected(tasks, socks)
    /\ UNCHANGED <<hass_data, session_dicts, created, ended, by_resolver, sent, frames, peer>>

\* asyncio.sleep returns: the next iteration of the connect loop
NextAttempt ==
    /\ call.pc = "sleep"
    /\ SendAttempt(client, call)
    /\ Collected(tasks, socks)
    /\ UNCHANGED <<hass_data, session_dicts, created, ended, by_resolver, sent, frames, peer>>

\* a send_str whose failure leaves the connected flag as it is
Transmit_KeepsFlag(ok) ==
    /\ call.pc = "send"
    /\ IF ok
       THEN /\ socks[client.ws].status = "open"
            /\ sent' = Append(sent, [ sock |-> client.ws, msg |-> Head(call.queue),
                                      call |-> call.serial ])
            /\ client' = client
            /\ call' = IF Tail(call.queue) = <<>>
                       THEN Returns(call, "ok")
                       ELSE [call EXCEPT !.queue = Tail(@)]
       ELSE /\ sent' = sent
            /\ client' = client
            /\ call' = Returns(call, "SendError")
    /\ UNCHANGED <<socks, tasks, hass_data, session_dicts, created, ended, by_resolver,
                   frames, peer>>

\* a send_str whose message overtakes what was transmitted before
Transmit_AtFront(ok) ==
    /\ call.pc = "send"
    /\ IF ok
       THEN /\ socks[client.ws].status = "open"
            /\ sent' = << [ sock |-> client.ws, msg |-> Head(call.queue),
                            call |-> call.serial ] >> \o sent
            /\ client' = client
            /\ call' = IF Tail(call.queue) = <<>>
                       THEN Returns(call, "ok")
                       ELSE [call EXCEPT !.queue = Tail(@)]
       ELSE /\ sent' = sent
            /\ client' = [client EXCEPT !.connected = FALSE]
            /\ call' = Returns(call, "SendError")
    /\ UNCHANGED <<socks, tasks, hass_data, session_dicts, created, ended, by_resolver,
                   frames, peer>>

\* self._ws.send_str returns (the message is on the wire) or raises
Transmit(ok) ==
    /\ call.pc = "send"
    /\ IF ok
       THEN /\ socks[client.ws].status = "open"
            /\ sent' = Append(sent, [ sock |-> client.ws, msg |-> Head(call.queue),
                                      call |-> call.serial ])
            /\ client' = client
            /\ call' = IF Tail(call.queue) = <<>>
                       THEN Returns(call, "ok")
                       ELSE [call EXCEPT !.queue = Tail(@)]
       ELSE /\ sent' = sent
            /\ client' = [client EXCEPT !.connected = FALSE]
            /\ call' = Returns(call, "SendError")
    /\ UNCHANGED <<socks, tasks, hass_data, session_dicts, created, ended, by_resolver,
                   frames, peer>>

----------------------------------------------------------------------------
(* Actions: async_close *)

\* whether "except Exception" catches exc: asyncio.CancelledError is a
\* BaseException and not an Exception
CaughtByExceptException(exc) == exc # "CancelledError"

\* async_close from the close of the socket to its end
CloseRest(c, k, tk) ==
    /\ client' = [c EXCEPT !.connected = FALSE, !.ws = 0, !.session_id = 0,
                           !.websocket_url = NoUrl]
    /\ call' = Returns(k, "ok")
    /\ Collected(tk, IF c.ws # 0 /\ ~WsClosed(socks, c.ws)
                     THEN [socks EXCEPT ![c.ws].status = "closed"]
                     ELSE socks)

\* an async_close that goes on to the socket without cancelling the task
CallClose_NoCancel ==
    /\ Idle
    /\ CloseRest([client EXCEPT !.receive_task = 0], NewCall("close", NoArgs), tasks)
    /\ UNCHANGED <<hass_data, session_dicts, created, ended, by_resolver, sent, frames, peer>>

\* a caller calls async_close(): the receive task is cancelled and awaited
\* when there is one that is not done
CallClose ==
    /\ Idle
    /\ LET t == client.receive_task
       IN  IF t # 0 /\ tasks[t].status # "done"
           THEN /\ tasks' = [tasks EXCEPT ![t].cancel = TRUE]
                /\ call' = [NewCall("close", NoArgs) EXCEPT !.pc = "cancel", !.task = t]
                /\ UNCHANGED <<client, socks>>
           ELSE CloseRest(client, NewCall("close", NoArgs), tasks)
    /\ UNCHANGED <<hass_data, session_dicts, created, ended, by_resolver, sent, frames, peer>>

\* the await of the cancelled receive task ends with CancelledError
CloseResume ==
    /\ call.pc = "cancel"
    /\ tasks[call.task].status = "done"
    /\ IF CaughtByExceptException("CancelledError")
       THEN CloseRest([client EXCEPT !.receive_task = 0], call, tasks)
       ELSE /\ client' = client
            /\ call' = Returns(call, "CancelledError")
            /\ Collected(tasks, socks)
    /\ UNCHANGED <<hass_data, session_dicts, created, ended, by_resolver, sent, frames, peer>>

\* the caller has taken the result of the operation that ended
Delivered ==
    /\ call.pc = "done"
    /\ call' = IdleCall
    /\ sent' = <<>>
    /\ UNCHANGED <<client, socks, tasks, hass_data, session_dicts, created, ended, by_resolver,
                   frames, peer>>

\* the caller has taken the result and goes on to its next call; what was
\* transmitted stays on the wire
CallerGoesOn ==
    /\ call.pc = "done"
    /\ call.serial < MaxCalls
    /\ call' = [IdleCall EXCEPT !.serial = call.serial]
    /\ UNCHANGED <<client, socks, tasks, hass_data, session_dicts, created, ended,
                   by_resolver, sent, frames, peer>>

----------------------------------------------------------------------------
(* Actions: the receive loop task *)

\* the task starts to run: receive_loop up to its first await (without a
\* socket it returns before its try statement, so its finally clause does
\* not run)
RecvStart(t) ==
    /\ tasks[t].status = "scheduled"
    /\ ~tasks[t].cancel
    /\ client' = client
    /\ call' = call
    /\ Collected(IF client.ws = 0
                 THEN [tasks EXCEPT ![t].status = "done"]
                 ELSE [tasks EXCEPT ![t].status = "running", ![t].sock = client.ws],
                 socks)
    /\ UNCHANGED <<hass_data, session_dicts, created, ended, by_resolver, sent, frames, peer>>

\* a loop that schedules itself again when its socket is not open any more
RecvExit_Restarts(t) ==
    /\ tasks[t].status = "running"
    /\ ~tasks[t].cancel
    /\ socks[tasks[t].sock].status # "open"
    /\ client' = [client EXCEPT !.receive_task = t]
    /\ call' = call
    /\ Collected([tasks EXCEPT ![t].status = "scheduled", ![t].sock = 0], socks)
    /\ UNCHANGED <<hass_data, session_dicts, created, ended, by_resolver, sent, frames, peer>>

\* the socket the loop reads is not open any more: the loop ends, its
\* finally clause clears self._receive_task
RecvExit(t) ==
    /\ tasks[t].status = "running"
    /\ ~tasks[t].cancel
    /\ socks[tasks[t].sock].status # "open"
    /\ client' = [client EXCEPT !.receive_task = 0]
    /\ call' = call
    /\ Collected([tasks EXCEPT ![t].status = "done", ![t].sock = 0], socks)
    /\ UNCHANGED <<hass_data, session_dicts, created, ended, by_resolver, sent, frames, peer>>

\* the cancelled task ends: CancelledError is thrown into receive_loop (its
\* finally clause runs) or, when it has not started, the coroutine never runs
RecvCancelled(t) ==
    /\ tasks[t].cancel
    /\ tasks[t].status \in {"scheduled", "running"}
    /\ client' = IF tasks[t].status = "running"
                 THEN [client EXCEPT !.receive_task = 0]
                 ELSE client
    /\ call' = call
    /\ Collected([tasks EXCEPT ![t].status = "done", ![t].sock = 0], socks)
    /\ UNCHANGED <<hass_data, session_dicts, created, ended, by_resolver, sent, frames, peer>>

----------------------------------------------------------------------------
(* Actions: the environment *)

\* a set_frame_callback that starts the receive loop of a connected client
SetFrameCallback_Starts(callback) ==
    /\ client.frame_callback # callback
    /\ LET c1 == [client EXCEPT !.frame_callback = callback]
           r == IF callback /\ c1.connected THEN StartReceiving(c1, tasks)
                ELSE [client |-> c1, tasks |-> tasks]
       IN  client' = r.client /\ tasks' = r.tasks
    /\ UNCHANGED <<call, socks, hass_data, session_dicts, created, ended, by_resolver, sent, frames, peer>>

\* set_frame_callback(callback)
SetFrameCallback(callback) ==
    /\ client.frame_callback # callback
    /\ client' = [client EXCEPT !.frame_callback = callback]
    /\ UNCHANGED <<call, socks, tasks, hass_data, session_dicts, created, ended, by_resolver, sent, frames, peer>>

\* the peer or the network closes a socket: a close is under way (close_code
\* is set) or the socket is closed
SocketLost(s, status) ==
    /\ \/ socks[s].status = "open" /\ status \in {"closing", "closed"}
       \/ socks[s].status = "closing" /\ status = "closed"
    /\ socks' = [socks EXCEPT ![s].status = status]
    /\ UNCHANGED <<client, call, tasks, hass_data, session_dicts, created, ended, by_resolver, sent, frames, peer>>

\* the create_desktop_session service on entry e, the agent creating a session
CreateDesktopSession(e) ==
    /\ created < MaxSessions
    /\ created' = created + 1
    /\ StoreSession(e, NewSession(hass_data[e].host, created + 1))
    /\ UNCHANGED <<client, call, socks, tasks, ended, by_resolver, sent, frames, peer>>

\* the end_desktop_session service on entry e, the agent behind the
\* api_client of that entry ending a session of its own
EndDesktopSession(e, session_id) ==
    /\ session_id \notin ended
    /\ \E f \in Entries :
          \E s \in {hass_data[f].latest_session}
                    \cup {SessionsOf(f)[i] : i \in 1..Len(SessionsOf(f))} :
             s.session_id = session_id /\ s.websocket_url.host = hass_data[e].host
    /\ ended' = ended \cup {session_id}
    /\ session_dicts' = [session_dicts EXCEPT ![hass_data[e].sessions] =
                                                  DictPop(@, session_id)]
    /\ UNCHANGED <<client, call, socks, tasks, hass_data, created, by_resolver, sent, frames, peer>>

----------------------------------------------------------------------------
(* Frames: _handle_binary_message *)

\* b"OFRA"
OFRA == <<79, 70, 82, 65>>

\* the length of the OFRA header
HeaderLen == 16

\* an unsigned 32-bit value, as its two 16-bit halves (the value is
\* hi * 65536 + lo)
Word(hi, lo) == [hi |-> hi, lo |-> lo]

\* an unpack that reads the four bytes in big-endian order
Unpack_BigEndian(b) == Word(b[2] + 256 * b[1], b[4] + 256 * b[3])

\* struct.unpack("<I", b)[0] of four bytes
Unpack(b) == Word(b[3] + 256 * b[4], b[1] + 256 * b[2])

\* what _handle_binary_message has done with a message: calls counts the
\* calls of the frame callback, jpeg_data, width and height are what it was
\* called with, raised tells that the callback raised; data and callback
\* are the message and whether a callback was registered
Handled(data, callback, calls, jpeg_data, width, height, raised) ==
    [ data |-> data, callback |-> callback, calls |-> calls,
      jpeg_data |-> jpeg_data, width |-> width, height |-> height,
      raised |-> raised ]

NotCalled(data, callback) ==
    Handled(data, callback, 0, <<>>, Word(0, 0), Word(0, 0), FALSE)

\* a handler that does not look at the magic bytes
HandleBinaryMessage_AnyMagic(data, callback, raises) ==
    IF Len(data) < HeaderLen THEN NotCalled(data, callback)
    ELSE LET header == SubSeq(data, 1, 16)
             width == Unpack(SubSeq(header, 5, 8))
             height == Unpack(SubSeq(header, 9, 12))
             jpeg_data == SubSeq(data, 17, Len(data))
         IN  IF callback
             THEN Handled(data, callback, 1, jpeg_data, width, height, raises)
             ELSE NotCalled(data, callback)

\* _handle_binary_message(data); raises: the frame callback raises an
\* Exception when it is called
HandleBinaryMessage(data, callback, raises) ==
    IF Len(data) < HeaderLen THEN NotCalled(data, callback)
    ELSE LET header == SubSeq(data, 1, 16)
             magic == SubSeq(header, 1, 4)
         IN  IF magic # OFRA THEN NotCalled(data, callback)
             ELSE LET width == Unpack(SubSeq(header, 5, 8))
                      height == Unpack(SubSeq(header, 9, 12))
                      jpeg_data == SubSeq(data, 17, Len(data))
                  IN  IF callback
                      THEN Handled(data, callback, 1, jpeg_data, width, height, raises)
                      ELSE NotCalled(data, callback)

\* a receive loop that the exception of the frame callback ends
RecvMessage_Propagates(t, data, raises) ==
    /\ tasks[t].status = "running"
    /\ ~tasks[t].cancel
    /\ socks[tasks[t].sock].status = "open"
    /\ Len(frames) < MaxFrames
    /\ LET h == HandleBinaryMessage(data, client.frame_callback, raises)
       IN  /\ raises => h.raised
           /\ frames' = Append(frames, h)
           /\ client' = IF h.raised THEN [client EXCEPT !.receive_task = 0] ELSE client
           /\ call' = call
           /\ Collected(IF h.raised
                        THEN [tasks EXCEPT ![t].status = "done", ![t].sock = 0]
                        ELSE tasks, socks)
    /\ UNCHANGED <<hass_data, session_dicts, created, ended, by_resolver, sent, peer>>

\* receive_loop gets a binary message from its socket and handles it; the
\* loop goes on with the next message (a text message is passed over)
RecvMessage(t, data, raises) ==
    /\ tasks[t].status = "running"
    /\ ~tasks[t].cancel
    /\ socks[tasks[t].sock].status = "open"
    /\ Len(frames) < MaxFrames
    /\ LET h == HandleBinaryMessage(data, client.frame_callback, raises)
       IN  /\ raises => h.raised
           /\ frames' = Append(frames, h)
    /\ UNCHANGED <<client, call, socks, tasks, hass_data, session_dicts, created,
                   ended, by_resolver, sent, peer>>

----------------------------------------------------------------------------
(* A second client instance of the same entry *)

\* of the async_connect of the second instance, the steps that read and
\* write the session cache; its socket and its flags are its own.
\* pc: "idle", "create" (it awaits async_create_desktop_session) or "open"
\* (it has its websocket_url and goes on to ws_connect)
IdlePeer ==
    [ pc |-> "idle", entry_data |-> 0, session_id |-> 0, url |-> NoUrl,
      creates |-> 0 ]

\* the second instance calls async_connect(): up to its first await
PeerConnect ==
    /\ peer.pc = "idle"
    /\ LET entry_data == FindEntryData(ClientEntry)
           existing_session == ExistingSession(entry_data)
       IN  peer' = IF existing_session.websocket_url # NoUrl
                   THEN [IdlePeer EXCEPT !.pc = "open",
                                         !.session_id = existing_session.session_id,
                                         !.url = existing_session.websocket_url]
                   ELSE [IdlePeer EXCEPT !.pc = "create", !.entry_data = entry_data,
                                         !.creates = 1]
    /\ UNCHANGED <<client, call, socks, tasks, hass_data, session_dicts, created,
                   ended, by_resolver, sent, frames>>

\* async_create_desktop_session of the second instance returns or raises
PeerCreateReturns(outcome) ==
    /\ peer.pc = "create"
    /\ IF outcome = "session"
       THEN LET session_data == NewSession(ClientHost, created + 1)
            IN  /\ created < MaxSessions
                /\ created' = created + 1
                /\ by_resolver' = by_resolver \cup {session_data.session_id}
                /\ IF peer.entry_data # 0
                   THEN StoreSession(peer.entry_data, session_data)
                   ELSE UNCHANGED <<hass_data, session_dicts>>
                /\ peer' = [peer EXCEPT !.pc = "open",
                                        !.session_id = session_data.session_id,
                                        !.url = session_data.websocket_url]
       ELSE LET own == IF IsLimitError(outcome) THEN LimitReuse(peer.entry_data)
                       ELSE NoSession
                f == FirstOffering
            IN  /\ UNCHANGED <<created, session_dicts, by_resolver>>
                /\ IF own # NoSession
                   THEN /\ UNCHANGED hass_data
                        /\ peer' = [peer EXCEPT !.pc = "open",
                                                !.session_id = own.session_id,
                                                !.url = own.websocket_url]
                   ELSE IF f # 0
                   THEN /\ hass_data' = UpdateEntry(f)
                        /\ peer' = [peer EXCEPT !.pc = "open", !.entry_data = f,
                                                !.session_id = OfferedBy(f).session_id,
                                                !.url = OfferedBy(f).websocket_url]
                   ELSE /\ UNCHANGED hass_data
                        /\ peer' = [peer EXCEPT !.pc = "open", !.url = ws_url]
    /\ UNCHANGED <<client, call, socks, tasks, ended, sent, frames>>

\* the async_connect of the second instance ends, whichever way
PeerEnds ==
    /\ peer.pc = "open"
    /\ peer' = IdlePeer
    /\ UNCHANGED <<client, call, socks, tasks, hass_data, session_dicts, created,
                   ended, by_resolver, sent, frames>>

----------------------------------------------------------------------------
(* The specification *)

\* the pointer events and key combos the callers send
PointerInputs ==
    { PointerArgs("click", None, None, Some("LEFT")),
      PointerArgs("move", None, None, None) }
KeyInputs == { <<"A">>, <<>> }

\* async_setup_entry: the entry_data of every entry, and the client of ClientEntry
Init ==
    /\ client = NewClient
    /\ call = IdleCall
    /\ socks = [s \in 1..SocketSlots |-> FreeSock]
    /\ tasks = [t \in 1..TaskSlots |-> FreeTask]
    /\ hass_data = [e \in Entries |->
                      [ sessions |-> e, latest_session |-> NoSession, host |-> e,
                        ws_client |-> e ]]
    /\ session_dicts = [e \in Entries |-> <<>>]
    /\ created = 0
    /\ ended = {}
    /\ by_resolver = {}
    /\ sent = <<>>
    /\ frames = <<>>
    /\ peer = IdlePeer

\* the steps of async_connect and async_close
ConnectionStep ==
    \/ \E u \in ExplicitUrls \cup {NoUrl} : CallConnect(u)
    \/ \E o \in CreateSessionOutcomes : CreateReturns(o)
    \/ \E o \in {"open", "closed", "error"} : OpenReturns(o)
    \/ CallClose
    \/ Delivered
    \/ \E s \in 1..SocketSlots, st \in {"closing", "closed"} : SocketLost(s, st)

\* the steps of the send operations
SendStep ==
    \/ \E a \in PointerInputs : CallSendPointer(a)
    \/ \E keys \in KeyInputs : CallSendKey(keys)
    \/ NextAttempt
    \/ \E ok \in BOOLEAN : Transmit(ok)

\* the steps of the receive loop, and of the close that waits for it
ReceiveStep ==
    \/ CloseResume
    \/ \E t \in 1..TaskSlots : RecvStart(t) \/ RecvExit(t) \/ RecvCancelled(t)
    \/ \E b \in BOOLEAN : SetFrameCallback(b)

\* the session services of the integration
ServiceStep ==
    \/ \E e \in Entries : CreateDesktopSession(e)
    \/ \E e \in Entries, sid \in 1..created : EndDesktopSession(e, sid)

\* The client with its receive loop; the session cache changes by the
\* client's own session resolution only.
Next == ConnectionStep \/ SendStep \/ ReceiveStep

Spec == Init /\ [][Next]_vars

\* Session resolution: the client's connects and closes next to the session
\* services that change the cache of every entry.
NextSessions == ConnectionStep \/ ServiceStep

SpecSessions == Init /\ [][NextSessions]_vars

\* the key names of the combos: two modifiers, two letters and a name that
\* _map_key_name_to_code does not know
KeyNames == {"CTRL", "SHIFT", "A", "B", "NOKEY"}

\* the longest key combo
MaxKeys == 3

\* the lists of key names a caller passes to async_send_key_combo
KeyCombos == UNION { [1..n -> KeyNames] : n \in 0..MaxKeys }

\* Key combos: async_send_key_combo with every combo, over either endpoint,
\* with send_str failing at any message.
NextKeys ==
    \/ \E keys \in KeyCombos : CallSendKey(keys)
    \/ \E o \in {"session", "other"} : CreateReturns(o)
    \/ \E o \in {"open", "error"} : OpenReturns(o)
    \/ NextAttempt
    \/ \E ok \in BOOLEAN : Transmit(ok)
    \/ Delivered

SpecKeys == Init /\ [][NextKeys]_vars

\* the amounts of a move or a scroll, in tenths: 10.6, -3.2, 2.5, -3.5
Tenths == {106, -32, 25, -35}

\* the pointer events with amounts a caller passes to
\* async_send_pointer_event: moves, scrolls and an event of an unknown kind
PointerMoves ==
    { PointerArgs(t, Some(dx), Some(dy), None) :
        t \in {"move", "scroll"}, dx \in Tenths, dy \in Tenths }
    \cup { PointerArgs("drag", Some(106), Some(-32), None) }

\* the pointer events with a button a caller passes: clicks and button
\* events (dx carries the action of a button event), and a move without
\* amounts
PointerButtons ==
    { PointerArgs("click", None, None, Some(b)) : b \in {"LEFT", "right"} }
    \cup { PointerArgs("button", dx, None, Some(b)) :
             dx \in {None, Some("down"), Some("up"), Some("UP"), Some("toggle")},
             b \in {"LEFT", "right"} }
    \cup { PointerArgs("move", None, None, None) }

\* Pointer events: async_send_pointer_event with every event, over either
\* endpoint, with send_str failing at any message.
NextPointer ==
    \/ \E a \in PointerMoves : CallSendPointer(a)
    \/ \E a \in PointerButtons : CallSendPointer(a)
    \/ \E o \in {"session", "other"} : CreateReturns(o)
    \/ \E o \in {"open", "error"} : OpenReturns(o)
    \/ NextAttempt
    \/ \E ok \in BOOLEAN : Transmit(ok)
    \/ Delivered

SpecPointer == Init /\ [][NextPointer]_vars

\* the header of a frame: magic, width, height, format
Header(magic, width, height) == magic \o width \o height \o <<0, 0, 0, 0>>

\* the binary messages the agent sends: a frame of 1920 x 1080 without a
\* payload and one of 4294967295 x 2147483648 with a payload, a header with
\* other magic bytes (one byte off, lower case), and messages shorter than
\* a header
Datas ==
    { Header(OFRA, <<128, 7, 0, 0>>, <<56, 4, 0, 0>>),
      Header(OFRA, <<255, 255, 255, 255>>, <<0, 0, 0, 128>>) \o <<255, 216, 79>>,
      Header(<<79, 70, 82, 66>>, <<128, 7, 0, 0>>, <<56, 4, 0, 0>>) \o <<255, 216, 79>>,
      Header(<<111, 102, 114, 97>>, <<128, 7, 0, 0>>, <<56, 4, 0, 0>>),
      <<>>,
      SubSeq(Header(OFRA, <<128, 7, 0, 0>>, <<56, 4, 0, 0>>), 1, 15) }

\* Frames: one connection with its receive loop, the agent sending binary
\* messages, the callback set and unset, the socket lost and opened again.
NextFrames ==
    \/ CallConnect(NoUrl)
    \/ CreateReturns("session")
    \/ OpenReturns("open")
    \/ Delivered
    \/ \E b \in BOOLEAN : SetFrameCallback(b)
    \/ \E t \in 1..TaskSlots : RecvStart(t)
    \/ \E t \in 1..TaskSlots, data \in Datas, raises \in BOOLEAN :
          RecvMessage(t, data, raises)
    \/ \E t \in 1..TaskSlots : RecvExit(t)
    \/ \E s \in 1..SocketSlots : SocketLost(s, "closed")

SpecFrames == Init /\ [][NextFrames]_vars

\* Two instances: the client and a second instance of the same entry run
\* async_connect at the same time, next to the create_desktop_session
\* service of that entry.
NextPeers ==
    \/ CallConnect(NoUrl)
    \/ \E o \in CreateSessionOutcomes : CreateReturns(o)
    \/ \E o \in {"open", "error"} : OpenReturns(o)
    \/ Delivered
    \/ PeerConnect
    \/ \E o \in CreateSessionOutcomes : PeerCreateReturns(o)
    \/ PeerEnds
    \/ CreateDesktopSession(ClientEntry)

SpecPeers == Init /\ [][NextPeers]_vars

\* key combos with other spellings of the key names: an alias of a modifier,
\* two names of one key, lower case, a name that is not known
AliasCombos ==
    { <<"A", "CTRL">>, <<"CONTROL", "A">>, <<"DELETE", "DEL">>, <<"a", "ESC">>,
      <<"NOKEY", "SHIFT", "B">> }

\* Key names: async_send_key_combo with the combos of AliasCombos, over
\* either endpoint, with send_str failing at any message.
NextAliases ==
    \/ \E keys \in AliasCombos : CallSendKey(keys)
    \/ \E o \in {"session", "other"} : CreateReturns(o)
    \/ \E o \in {"open", "error"} : OpenReturns(o)
    \/ NextAttempt
    \/ \E ok \in BOOLEAN : Transmit(ok)
    \/ Delivered

SpecAliases == Init /\ [][NextAliases]_vars

\* Termination: the send operations with connections that fail, close at
\* once and get lost.  Every await of a send operation ends: the creation
\* of a session and ws_connect return or raise within their timeouts, the
\* sleep of the retry loop ends, send_str returns or raises.
NextSends ==
    \/ \E a \in PointerInputs : CallSendPointer(a)
    \/ \E keys \in KeyInputs : CallSendKey(keys)
    \/ \E o \in CreateSessionOutcomes : CreateReturns(o)
    \/ \E o \in {"open", "closed", "error"} : OpenReturns(o)
    \/ NextAttempt
    \/ \E ok \in BOOLEAN : Transmit(ok)
    \/ Delivered
    \/ \E s \in 1..SocketSlots, st \in {"closing", "closed"} : SocketLost(s, st)

SpecSends ==
    /\ Init /\ [][NextSends]_vars
    /\ WF_vars(\E o \in CreateSessionOutcomes : CreateReturns(o))
    /\ WF_vars(\E o \in {"open", "closed", "error"} : OpenReturns(o))
    /\ WF_vars(NextAttempt)
    /\ WF_vars(\E ok \in BOOLEAN : Transmit(ok))

\* Call order: the send operations of one caller, called one after the other
\* over one wire log, with connection losses and reconnects in between.
NextOrder ==
    \/ \E a \in PointerInputs : CallSendPointer(a)
    \/ \E keys \in KeyInputs : CallSendKey(keys)
    \/ \E o \in CreateSessionOutcomes : CreateReturns(o)
    \/ \E o \in {"open", "closed", "error"} : OpenReturns(o)
    \/ NextAttempt
    \/ \E ok \in BOOLEAN : Transmit(ok)
    \/ CallerGoesOn
    \/ \E s \in 1..SocketSlots, st \in {"closing", "closed"} : SocketLost(s, st)

SpecOrder == Init /\ [][NextOrder]_vars

----------------------------------------------------------------------------
(* Properties *)

\* C1: the dialect of a socket is fixed when the connect opens it, from the
\* resolved URL (the legacy path makes it the deprecated one); while the
\* client is connected its dialect flag is the one of its socket, and every
\* message put on the wire went to the socket of the client in the dialect
\* of that socket.
C1_DialectFixedPerSocket ==
    /\ client.connected =>
          /\ client.ws # 0
          /\ client.is_deprecated_endpoint = socks[client.ws].deprecated
          /\ socks[client.ws].deprecated = (client.websocket_url.path = LegacyPath)
    /\ \A i \in 1..Len(sent) :
          /\ sent[i].sock = client.ws
          /\ socks[sent[i].sock].deprecated = (sent[i].msg.type \in {"pointer", "keyboard"})

\* a click has gone out, as its two session-format messages, on the socket
\* of a session URL
C1_Witness ==
    /\ Len(sent) = 2
    /\ client.connected
    /\ client.websocket_url.path = SessionPath
    /\ sent[2].msg.type = "pointer_button"

\* C2: a send operation calls async_connect at most 3 times; while it
\* transmits the client is connected; when it gives up with the connection
\* error every one of the 3 attempts has been made and nothing has been put
\* on the wire.
C2_BoundedConnectAttempts ==
    call.op \in SendOps =>
        /\ call.connects <= 3
        /\ call.pc = "send" => client.connected /\ client.ws # 0
        /\ (sent # <<>> /\ call.connects > 0) => call.opens > 0
        /\ call.result = "ConnectionFailed" => call.connects = 3 /\ sent = <<>>

\* a send operation has given up after its third failed attempt
C2_Witness ==
    /\ call.op = "send_pointer_event"
    /\ call.pc = "done"
    /\ call.result = "ConnectionFailed"
    /\ call.connects = 3
    /\ call.opens = 3

\* C3: when send_str fails, the send operation ends there with the error,
\* the client is flagged disconnected, and the operation has neither put
\* the message on the wire nor tried to connect again.
C3_TransmitFailureDisconnects ==
    [][(call.pc = "send" /\ call' # call /\ Len(sent') = Len(sent)) =>
          /\ call'.pc = "done"
          /\ call'.result = "SendError"
          /\ ~client'.connected
          /\ sent' = sent
          /\ call'.connects = call.connects
          /\ call'.opens = call.opens]_vars

\* the second message of a click failed after the first one went out
C3_Witness ==
    /\ call.pc = "done"
    /\ call.result = "SendError"
    /\ Len(sent) = 1
    /\ ~client.connected
    /\ client.ws # 0

\* C4: when async_close has ended the client is disconnected: no receive
\* task is referenced, the socket is released, the connected flag is false,
\* the session id and the session URL are cleared.
C4_CloseDisconnects ==
    (call.op = "close" /\ call.pc = "done") =>
        /\ client.receive_task = 0
        /\ client.ws = 0
        /\ ~client.connected
        /\ client.session_id = 0
        /\ client.websocket_url = NoUrl

\* C5: when async_close has ended no receive-loop task is scheduled or
\* running, and the step of async_close that closes and releases the socket
\* is taken in a state without such a task.
C5_NoReceiveTaskAfterClose ==
    /\ []((call.op = "close" /\ call.pc = "done") =>
             \A t \in 1..TaskSlots : tasks[t].status \notin {"scheduled", "running"})
    /\ [][(call'.op = "close" /\ call'.result = "ok" /\ call' # call) =>
             \A t \in 1..TaskSlots : tasks[t].status \notin {"scheduled", "running"}]_vars

\* async_close has ended after it cancelled a receive task and waited for it
C5_Witness ==
    /\ call.op = "close"
    /\ call.pc = "done"
    /\ call.result = "CancelledError"
    /\ \A t \in 1..TaskSlots : tasks[t].status \notin {"scheduled", "running"}

\* C6: async_close raises no error, and it leaves the client in the
\* disconnected state a further async_close leaves unchanged.
C6_CloseIdempotent ==
    (call.op = "close" /\ call.pc = "done") =>
        /\ call.result = "ok"
        /\ client = [NewClient EXCEPT
                        !.frame_callback = client.frame_callback,
                        !.is_deprecated_endpoint = client.is_deprecated_endpoint]

\* C7: async_connect on a client whose connected flag is set and whose
\* socket is verified open returns at once, whatever URL is passed: the
\* client, its socket, its receive task and the session cache are as they
\* were, no session is created and no socket is opened.
C7_ConnectNoOpWhenOpen ==
    [][(call.pc = "idle" /\ call'.op = "connect"
        /\ client.connected /\ client.ws # 0 /\ socks[client.ws].status = "open") =>
          /\ call'.pc = "done"
          /\ call'.result = "ok"
          /\ call'.creates = 0
          /\ call'.opens = 0
          /\ UNCHANGED <<client, socks, tasks, hass_data, session_dicts, created>>]_vars

\* async_connect has returned at once on a connected client
C7_Witness ==
    /\ call.op = "connect"
    /\ call.pc = "done"
    /\ call.result = "ok"
    /\ call.opens = 0
    /\ client.connected
    /\ socks[client.ws].status = "open"

\* C8: async_connect on a client whose connected flag is set while its
\* socket is not open any more resets the client to disconnected and goes
\* on to the session resolution or to ws_connect.
C8_StaleFlagReconnects ==
    [][(call.pc = "idle" /\ call'.op = "connect"
        /\ client.connected /\ client.ws # 0 /\ socks[client.ws].status # "open") =>
          /\ call'.pc \in {"create", "open"}
          /\ call'.reset
          /\ ~client'.connected
          /\ client'.ws = 0]_vars

\* async_connect has found the flag stale and has connected again
C8_Witness ==
    /\ call.op = "connect"
    /\ call.pc = "done"
    /\ call.result = "ok"
    /\ call.reset
    /\ call.opens = 1
    /\ client.connected
    /\ socks[client.ws].status = "open"

\* C9: async_connect without a URL, on a client that is not connected and
\* whose entry tracks a session with a websocket URL (as latest_session or
\* in the sessions dict), goes to ws_connect with the URL of the tracked
\* session created last, which is latest_session when there is one, and
\* creates no session.
C9_ReusesLatestSession ==
    [][LET e == hass_data[ClientEntry]
           tracked == ({e.latest_session}
                       \cup {SessionsOf(ClientEntry)[i] : i \in 1..Len(SessionsOf(ClientEntry))})
                      \ {NoSession}
       IN  (/\ call.pc = "idle" /\ call'.op = "connect" /\ call'.arg = NoUrl
            /\ ~(client.connected /\ client.ws # 0 /\ socks[client.ws].status = "open")
            /\ tracked # {}) =>
              /\ call'.pc = "open"
              /\ call'.creates = 0
              /\ created' = created
              /\ \E s \in tracked :
                    /\ call'.url = s.websocket_url
                    /\ client'.session_id = s.session_id
                    /\ e.latest_session # NoSession => s = e.latest_session
                    /\ \A r \in tracked : r.session_id <= s.session_id]_vars

\* C10: a session the session resolution of async_connect creates is put in
\* the sessions dict of the entry and made its latest_session, and the
\* connection goes to its URL; no step of the client's own operations takes
\* it out of the entry; and while the entry holds such a session, async_connect
\* without a URL on a client that is not connected goes to ws_connect with
\* the URL of a session of the entry (the one of latest_session when there
\* is one) and creates no session.
C10_CreatedSessionsRecorded ==
    [][LET e == hass_data[ClientEntry]
           ids(en, ss) == {en.latest_session.session_id}
                          \cup {ss[i].session_id : i \in 1..Len(ss)}
           held == ids(e, SessionsOf(ClientEntry)) \cap by_resolver
           held_after == ids(hass_data'[ClientEntry],
                             session_dicts'[hass_data'[ClientEntry].sessions])
       IN  /\ (call.pc = "create" /\ created' = created + 1 /\ call' # call) =>
                 LET s == NewSession(ClientHost, created')
                 IN  /\ \E i \in 1..Len(session_dicts'[hass_data'[ClientEntry].sessions]) :
                           session_dicts'[hass_data'[ClientEntry].sessions][i] = s
                     /\ hass_data'[ClientEntry].latest_session = s
                     /\ by_resolver' = by_resolver \cup {s.session_id}
                     /\ call'.url = s.websocket_url
                     /\ client'.session_id = s.session_id
           /\ (ended' = ended /\ call' # call) => held \subseteq held_after
           /\ (/\ call.pc = "idle" /\ call'.op = "connect" /\ call'.arg = NoUrl
               /\ ~(client.connected /\ client.ws # 0 /\ socks[client.ws].status = "open")
               /\ held # {}) =>
                 /\ call'.pc = "open"
                 /\ call'.creates = 0
                 /\ created' = created
                 /\ client'.session_id \in ids(e, SessionsOf(ClientEntry)) \ {0}
                 /\ call'.url = SessionUrl(call'.url.host, client'.session_id)
                 /\ e.latest_session # NoSession =>
                       call'.url = e.latest_session.websocket_url]_vars

\* a later async_connect has gone to the session the session resolution
\* created before, and has created none
C10_Witness ==
    /\ call.op = "connect"
    /\ call.pc = "done"
    /\ call.result = "ok"
    /\ call.creates = 0
    /\ call.opens = 1
    /\ client.connected
    /\ client.session_id \in by_resolver
    /\ client.session_id \notin ended
    /\ hass_data[ClientEntry].latest_session.session_id = client.session_id

\* C11: an async_connect that is called after end_desktop_session has ended
\* a session does not go to the websocket URL of that session.
C11_EndedSessionNotReused ==
    [][(call.pc = "idle" /\ call'.op = "connect" /\ call'.pc = "open"
        /\ call'.arg = NoUrl /\ call'.url.path = SessionPath) =>
          call'.url.token \notin ended]_vars

\* C12: when the creation of a session fails with the limit error while an
\* entry of the cache holds a session with a websocket URL, async_connect
\* goes to ws_connect with the URL of a session of the cache, takes its
\* session id, and selects the session-based format.
C12_LimitReusesCachedSession ==
    [][(/\ call.pc = "create" /\ call' # call
        /\ call'.session_err = "limit_reached"
        /\ \E e \in Entries :
              \/ hass_data[e].latest_session.websocket_url # NoUrl
              \/ \E i \in 1..Len(SessionsOf(e)) :
                    SessionsOf(e)[i].websocket_url # NoUrl) =>
          /\ call'.pc = "open"
          /\ call'.url.path = SessionPath
          /\ call'.url # ws_url
          /\ ~client'.is_deprecated_endpoint
          /\ created' = created
          /\ \E e \in Entries :
                \E s \in {hass_data[e].latest_session}
                          \cup {SessionsOf(e)[i] : i \in 1..Len(SessionsOf(e))} :
                   /\ s # NoSession
                   /\ call'.url = s.websocket_url
                   /\ client'.session_id = s.session_id]_vars

\* async_connect is at ws_connect with the URL of a cached session after
\* the limit error
C12_Witness ==
    /\ call.op = "connect"
    /\ call.pc = "open"
    /\ call.session_err = "limit_reached"
    /\ call.url.path = SessionPath
    /\ client.session_id = call.url.token
    /\ ~client.is_deprecated_endpoint

\* C13: when the creation of a session fails and no entry of the cache
\* holds a session with a websocket URL, async_connect does not end there:
\* it goes to ws_connect with the fixed endpoint URL and selects the
\* deprecated format.
C13_FallsBackToLegacy ==
    [][(/\ call.pc = "create" /\ call' # call /\ created' = created
        /\ \A e \in Entries :
              /\ hass_data[e].latest_session.websocket_url = NoUrl
              /\ \A i \in 1..Len(SessionsOf(e)) :
                    SessionsOf(e)[i].websocket_url = NoUrl) =>
          /\ call'.pc = "open"
          /\ call'.session_err # ""
          /\ call'.url.path = LegacyPath
          /\ call'.url.host = ClientHost
          /\ call'.url.token = 0
          /\ client'.is_deprecated_endpoint]_vars

\* async_connect has connected over the fixed endpoint after the creation
\* of a session failed
C13_Witness ==
    /\ call.op = "connect"
    /\ call.pc = "done"
    /\ call.result = "ok"
    /\ call.creates = 1
    /\ client.connected
    /\ client.websocket_url.path = LegacyPath
    /\ client.is_deprecated_endpoint
    /\ \A e \in Entries : hass_data[e].latest_session = NoSession

C15_NoPartialSend ==
    (call.pc = "done" /\ call.op \in SendOps) =>
        LET msgs == Encode(call.op, client.is_deprecated_endpoint, call.args).msgs
        IN  ~(0 < Len(sent) /\ Len(sent) < Len(msgs))

\* C16: a send call whose arguments violate the protocol ends with
\* ValueError, without a message transmitted and without a connect attempt.
C16_InvalidCallRejected ==
    (/\ call.pc = "done"
     /\ call.op \in SendOps
     /\ Encode(call.op, TRUE, call.args).err # ""
     /\ Encode(call.op, FALSE, call.args).err # "") =>
        /\ call.result = "ValueError"
        /\ sent = <<>>
        /\ call.connects = 0

\* C20: a click in the session-based format transmits the pointer_button
\* message "down" first and the pointer_button message "up" second, both
\* with the button in lower case, and nothing else; the click that ends
\* with success has transmitted exactly these two.
C20_ClickDownThenUp ==
    (/\ call.op = "send_pointer_event"
     /\ call.args.event_type = "click"
     /\ call.args.button = Some("LEFT")
     /\ ~client.is_deprecated_endpoint) =>
        /\ Len(sent) <= 2
        /\ \A i \in 1..Len(sent) :
              /\ sent[i].msg.type = "pointer_button"
              /\ sent[i].msg.button = "left"
              /\ sent[i].msg.action = (IF i = 1 THEN "down" ELSE "up")
        /\ (call.pc = "done" /\ call.result = "ok") => Len(sent) = 2

\* a click has ended with success in the session-based format
C20_Witness ==
    /\ call.op = "send_pointer_event"
    /\ call.args.event_type = "click"
    /\ call.pc = "done"
    /\ call.result = "ok"
    /\ ~client.is_deprecated_endpoint
    /\ Len(sent) = 2
    /\ sent[1].msg.action = "down"
    /\ sent[2].msg.action = "up"

\* C17: the key messages of a combo in the session-based format go out with
\* every "down" before any "up"; the downs are the modifiers in input order,
\* then the main keys in input order; the ups are the main keys in reverse
\* input order, then the modifiers in the reverse order of their downs.
C17_KeyOrder ==
    (call.op = "send_key_combo" /\ ~client.is_deprecated_endpoint) =>
        LET keys == call.args.keys
            Code(k) == CASE k = "CTRL" -> 17 [] k = "SHIFT" -> 16
                         [] k = "A" -> 65 [] k = "B" -> 66
            mods == SelectSeq(keys, LAMBDA k : k \in {"CTRL", "SHIFT"})
            mains == SelectSeq(keys, LAMBDA k : k \in {"A", "B"})
            down == mods \o mains
            up == [i \in 1..Len(mains) |-> mains[Len(mains) + 1 - i]]
                  \o [i \in 1..Len(mods) |-> mods[Len(mods) + 1 - i]]
        IN  /\ Len(sent) <= Len(down) + Len(up)
            /\ \A i \in 1..Len(sent) :
                  /\ sent[i].msg.type = "key"
                  /\ sent[i].msg.action = (IF i <= Len(down) THEN "down" ELSE "up")
                  /\ sent[i].msg.key_code = Code((down \o up)[i])
            /\ (call.pc = "done" /\ call.result = "ok") =>
                  Len(sent) = Len(down) + Len(up)

\* the combo CTRL, SHIFT, A has gone out: down CTRL, SHIFT, A; up A, SHIFT, CTRL
C17_Witness ==
    /\ call.op = "send_key_combo"
    /\ call.args.keys = <<"CTRL", "SHIFT", "A">>
    /\ call.pc = "done"
    /\ call.result = "ok"
    /\ ~client.is_deprecated_endpoint
    /\ [i \in 1..Len(sent) |-> <<sent[i].msg.key_code, sent[i].msg.action>>]
         = << <<17, "down">>, <<16, "down">>, <<65, "down">>,
              <<65, "up">>, <<16, "up">>, <<17, "up">> >>

\* C18: every key message of a combo in the session-based format carries
\* the flags of exactly the modifiers of the combo other than the key of the
\* message itself.
C18_ModifierFlags ==
    (call.op = "send_key_combo" /\ ~client.is_deprecated_endpoint) =>
        LET keys == call.args.keys
            InCombo(k) == \E i \in 1..Len(keys) : keys[i] = k
        IN  \A i \in 1..Len(sent) :
              /\ ("ctrl" \in sent[i].msg.flags) =
                    (InCombo("CTRL") /\ sent[i].msg.key_code # 17)
              /\ ("shift" \in sent[i].msg.flags) =
                    (InCombo("SHIFT") /\ sent[i].msg.key_code # 16)
              /\ sent[i].msg.flags \subseteq {"ctrl", "shift"}

\* the combo CTRL, SHIFT, A has gone out: the messages of CTRL carry shift
\* alone, those of SHIFT ctrl alone, those of A both
C18_Witness ==
    /\ call.op = "send_key_combo"
    /\ call.args.keys = <<"CTRL", "SHIFT", "A">>
    /\ call.pc = "done"
    /\ call.result = "ok"
    /\ ~client.is_deprecated_endpoint
    /\ [i \in 1..Len(sent) |-> sent[i].msg.flags]
         = << {"shift"}, {"ctrl"}, {"ctrl", "shift"},
              {"ctrl", "shift"}, {"ctrl"}, {"shift"} >>

\* C19: a combo with unknown key names does not end with ValueError; when it
\* ends with success it has transmitted what the combo without the unknown
\* names transmits, and nothing at all when no name of it is known.
C19_UnknownKeysDropped ==
    (/\ call.op = "send_key_combo"
     /\ call.pc = "done"
     /\ \E i \in 1..Len(call.args.keys) : call.args.keys[i] = "NOKEY") =>
        LET keys == call.args.keys
            others == SelectSeq(keys, LAMBDA k : k # "NOKEY")
        IN  /\ call.result \in {"ok", "SendError", "ConnectionFailed"}
            /\ \A i \in 1..Len(sent) :
                  /\ sent[i].msg.type = "key" => sent[i].msg.key_code # 0
                  /\ \A j \in 1..Len(sent[i].msg.keys) :
                        sent[i].msg.keys[j] # "NOKEY"
            /\ call.result = "ok" =>
                  IF others = <<>> THEN sent = <<>>
                  ELSE [i \in 1..Len(sent) |-> sent[i].msg]
                         = KeyEncode(client.is_deprecated_endpoint, others).msgs
            /\ (others = <<>> /\ call.connects = 0) =>
                  call.result = "ok" /\ sent = <<>>

\* a combo with an unknown name between two known ones has gone out
C19_Witness ==
    /\ call.op = "send_key_combo"
    /\ call.pc = "done"
    /\ call.result = "ok"
    /\ call.args.keys = <<"CTRL", "NOKEY", "A">>
    /\ ~client.is_deprecated_endpoint
    /\ [i \in 1..Len(sent) |-> sent[i].msg.key_code] = <<17, 65, 65, 17>>

\* C21: over the fixed endpoint (deprecated format) a click and a button
\* event, whatever its action, each transmit one message, a "pointer"
\* message with the event "click" and the button in lower case, and neither
\* ends with ValueError.
C21_LegacyClickSingleMessage ==
    (/\ call.op = "send_pointer_event"
     /\ call.args.event_type \in {"click", "button"}
     /\ call.args.button # None
     /\ client.is_deprecated_endpoint) =>
        /\ Len(sent) <= 1
        /\ \A i \in 1..Len(sent) :
              /\ sent[i].msg.type = "pointer"
              /\ sent[i].msg.event = "click"
              /\ sent[i].msg.button =
                    (IF call.args.button = Some("LEFT") THEN "left" ELSE "right")
              /\ sent[i].msg.action = ""
        /\ call.pc = "done" =>
              /\ call.result \in {"ok", "SendError", "ConnectionFailed"}
              /\ call.result = "ok" => Len(sent) = 1

\* a button event with the action "up" has gone out over the fixed endpoint
\* as one click message
C21_Witness ==
    /\ call.op = "send_pointer_event"
    /\ call.args.event_type = "button"
    /\ call.args.dx = Some("up")
    /\ call.pc = "done"
    /\ call.result = "ok"
    /\ client.is_deprecated_endpoint
    /\ Len(sent) = 1
    /\ sent[1].msg.event = "click"

\* C22: every binary message of 16 bytes or more that begins with "OFRA",
\* handled while a callback is registered, makes one call of the callback,
\* with the width and the height that bytes 4-7 and 8-11 hold as
\* little-endian unsigned 32-bit values and with the bytes from offset 16 on.
C22_FrameDecoded ==
    \A i \in 1..Len(frames) :
       LET d == frames[i].data
       IN  (/\ Len(d) >= 16
            /\ <<d[1], d[2], d[3], d[4]>> = <<79, 70, 82, 65>>
            /\ frames[i].callback) =>
              /\ frames[i].calls = 1
              /\ frames[i].width.lo = d[5] + 256 * d[6]
              /\ frames[i].width.hi = d[7] + 256 * d[8]
              /\ frames[i].height.lo = d[9] + 256 * d[10]
              /\ frames[i].height.hi = d[11] + 256 * d[12]
              /\ Len(frames[i].jpeg_data) = Len(d) - 16
              /\ \A j \in 1..(Len(d) - 16) : frames[i].jpeg_data[j] = d[16 + j]

\* the frame of 4294967295 x 2147483648 with a payload of three bytes has
\* been passed to the callback
C22_Witness ==
    \E i \in 1..Len(frames) :
       /\ frames[i].calls = 1
       /\ frames[i].width = [hi |-> 65535, lo |-> 65535]
       /\ frames[i].height = [hi |-> 32768, lo |-> 0]
       /\ frames[i].jpeg_data = <<255, 216, 79>>

\* C23: a binary message shorter than 16 bytes, and a message that does not
\* begin with "OFRA", makes no call of the frame callback.
C23_MalformedFrameDropped ==
    \A i \in 1..Len(frames) :
       LET d == frames[i].data
       IN  (\/ Len(d) < 16
            \/ <<d[1], d[2], d[3], d[4]>> # <<79, 70, 82, 65>>) =>
              frames[i].calls = 0

\* with a callback registered, a message of 15 bytes and a message of 19
\* bytes with the magic bytes "OFRB" have been handled without a call
C23_Witness ==
    /\ Len(frames) = 2
    /\ Len(frames[1].data) = 15
    /\ Len(frames[2].data) = 19
    /\ frames[2].data[4] = 66
    /\ \A i \in 1..2 : frames[i].callback /\ frames[i].calls = 0

\* C24: the receive loop goes on after every binary message, malformed or
\* not, whether the callback returns or raises: its task keeps running on
\* its socket and stays the receive task of the client; and a valid frame
\* handled after a malformed frame or after a call that raised is passed
\* to the callback.
C24_LoopSurvivesBadFrames ==
    /\ [][Len(frames') > Len(frames) =>
            /\ client'.receive_task = client.receive_task
            /\ client.receive_task # 0
            /\ tasks[client.receive_task].status = "running"
            /\ tasks' = tasks
            /\ socks' = socks
            /\ client'.connected = client.connected]_vars
    /\ [](\A i, j \in 1..Len(frames) :
            (/\ i < j
             /\ frames[i].calls = 0 \/ frames[i].raised
             /\ Len(frames[j].data) >= 16
             /\ SubSeq(frames[j].data, 1, 4) = <<79, 70, 82, 65>>
             /\ frames[j].callback) => frames[j].calls = 1)

\* the callback has raised on one frame and has been called with the next
C24_Witness ==
    /\ Len(frames) = 2
    /\ frames[1].calls = 1
    /\ frames[1].raised
    /\ frames[2].calls = 1
    /\ ~frames[2].raised
    /\ client.receive_task # 0
    /\ tasks[client.receive_task].status = "running"

\* C25: when the receive loop ends because its socket is not open any more
\* (an error, a close frame), the client is marked disconnected, and the
\* operation of the caller goes on as it was.
C25_ReceiveLoopEndDisconnects ==
    [][(\E t \in 1..TaskSlots :
          /\ tasks[t].status = "running"
          /\ ~tasks[t].cancel
          /\ tasks'[t].status # "running") =>
          /\ ~client'.connected
          /\ call' = call]_vars

\* C26: a move in the session-based format carries dx and dy as the
\* integers nearest to the amounts passed (10.6 gives 11, -3.2 gives -3), a
\* scroll carries delta_x and delta_y the same way; in the deprecated format
\* both carry the amounts as they were passed.
C26_MoveRounding ==
    (/\ call.op = "send_pointer_event"
     /\ call.args.event_type \in {"move", "scroll"}
     /\ call.args.dx # None
     /\ sent # <<>>) =>
        LET a == call.args
            m == sent[1].msg
            Nearest(v, t) == /\ v[1] = "int"
                             /\ 10 * v[2] - t <= 5
                             /\ t - 10 * v[2] <= 5
                             /\ t = 106 => v[2] = 11
                             /\ t = -32 => v[2] = -3
        IN  /\ Len(sent) = 1
            /\ m.type = "pointer" =>
                  /\ m.event = a.event_type
                  /\ m.dx = <<"float", a.dx[1]>>
                  /\ m.dy = <<"float", a.dy[1]>>
            /\ m.type = "pointer_move" =>
                  /\ a.event_type = "move"
                  /\ Nearest(m.dx, a.dx[1])
                  /\ Nearest(m.dy, a.dy[1])
            /\ m.type = "pointer_wheel" =>
                  /\ a.event_type = "scroll"
                  /\ Nearest(m.delta_x, a.dx[1])
                  /\ Nearest(m.delta_y, a.dy[1])
            /\ m.type \in {"pointer", "pointer_move", "pointer_wheel"}
            /\ (m.type = "pointer") = socks[sent[1].sock].deprecated

\* the move by 10.6 and -3.2 has gone out in the session-based format as
\* 11 and -3
C26_Witness ==
    /\ call.op = "send_pointer_event"
    /\ call.args.event_type = "move"
    /\ call.args.dx = Some(106)
    /\ call.args.dy = Some(-32)
    /\ call.pc = "done"
    /\ call.result = "ok"
    /\ ~client.is_deprecated_endpoint
    /\ Len(sent) = 1
    /\ sent[1].msg.type = "pointer_move"
    /\ sent[1].msg.dx = <<"int", 11>>
    /\ sent[1].msg.dy = <<"int", -3>>

\* C27: with two instances of one entry in async_connect at the same time,
\* the sessions the two have created and the creations they wait for are
\* no more than two (one each) at any time, every session
\* created is in the sessions dict of the entry, once, with its own
\* websocket URL, and latest_session holds the id and the websocket URL of
\* one session that was created.
C27_CacheNotCorrupted ==
    LET sessions == SessionsOf(ClientEntry)
        latest == hass_data[ClientEntry].latest_session
        IsCreated(x) == /\ x.session_id \in 1..created
                        /\ x.websocket_url = [path |-> SessionPath, host |-> ClientHost,
                                              token |-> x.session_id]
    IN  /\ Cardinality(by_resolver)
             + (IF call.pc = "create" THEN 1 ELSE 0)
             + (IF peer.pc = "create" THEN 1 ELSE 0) <= 2
        /\ call.creates <= 1
        /\ peer.creates <= 1
        /\ Len(sessions) = created
        /\ \A i \in 1..Len(sessions) : IsCreated(sessions[i])
        /\ \A sid \in 1..created :
              \E i \in 1..Len(sessions) : sessions[i].session_id = sid
        /\ IF created = 0 THEN latest = NoSession ELSE IsCreated(latest)

\* both instances have created a session, each while the other was waiting
\* for its own
C27_Witness ==
    /\ call.op = "connect"
    /\ call.pc = "open"
    /\ call.creates = 1
    /\ peer.pc = "open"
    /\ peer.creates = 1
    /\ by_resolver = {client.session_id, peer.session_id}
    /\ client.session_id # peer.session_id
    /\ hass_data[ClientEntry].latest_session.session_id \in by_resolver
    /\ Len(SessionsOf(ClientEntry)) = 2

\* C28: after the creation of a session has failed with an error that is
\* not the limit error, while the entry of the client tracks no session,
\* async_connect takes no session of another entry and goes to the fixed
\* endpoint URL.
C28_SearchOnlyAfterLimit ==
    [][(/\ call.pc = "create" /\ call' # call
        /\ call'.session_err = "other"
        /\ hass_data[ClientEntry].latest_session = NoSession
        /\ SessionsOf(ClientEntry) = <<>>) =>
          /\ call'.pc = "open"
          /\ call'.url.path = LegacyPath
          /\ call'.url.host = ClientHost
          /\ client'.session_id = 0
          /\ hass_data' = hass_data]_vars

\* C29: at most one socket that the client has opened is open at any time.
C29_OneOpenSocket ==
    Cardinality({s \in 1..SocketSlots : socks[s].status = "open"}) <= 1

\* C30: an async_connect that opens a socket while a frame callback is
\* registered leaves a receive task that is scheduled, or that runs on the
\* socket just opened.
C30_ReceiveLoopOnNewSocket ==
    [][(/\ call.pc = "open" /\ call' # call
        /\ client.frame_callback
        /\ client'.connected) =>
          \E t \in 1..TaskSlots :
             /\ client'.receive_task = t
             /\ ~tasks'[t].cancel
             /\ \/ tasks'[t].status = "scheduled"
                \/ tasks'[t].status = "running" /\ tasks'[t].sock = client'.ws]_vars

\* C31: a receive task is scheduled only by an async_connect that has just
\* opened a socket (called by a caller or by a send operation), and a task
\* runs only from there: a loop that has ended is never scheduled or run
\* again, and nothing but such a connect brings a loop to a client that has
\* none.
C31_NoSelfRestart ==
    [][\A t \in 1..TaskSlots :
          /\ (tasks'[t].status = "scheduled" /\ tasks[t].status # "scheduled") =>
                /\ call.pc = "open"
                /\ call.op \in SendOps \cup {"connect"}
                /\ client'.ws # 0 /\ client'.ws # client.ws
                /\ socks'[client'.ws].status = "open"
                /\ client'.receive_task = t
          /\ (tasks'[t].status = "running" /\ tasks[t].status # "running") =>
                tasks[t].status = "scheduled"]_vars

\* async_close waits for the loop it has cancelled; the loop has ended and
\* no other loop is there
C31_Witness ==
    /\ call.pc = "cancel"
    /\ tasks[call.task].status = "done"
    /\ client.frame_callback
    /\ \A t \in 1..TaskSlots : tasks[t].status \notin {"scheduled", "running"}

\* C32: an async_connect that is passed a URL and has to connect goes
\* straight to ws_connect with that URL: it awaits no creation of a session
\* and none of its steps changes the session cache; the endpoint type it sets
\* is the deprecated one exactly when the URL has the fixed legacy path, and
\* the socket it opens is the socket of that URL and of that type.
C32_ExplicitUrlSkipsResolver ==
    [][(call' # call /\ (call.arg # NoUrl \/ call'.arg # NoUrl)) =>
          /\ UNCHANGED <<hass_data, session_dicts, created, by_resolver>>
          /\ call'.creates = 0
          /\ call.pc = "idle" => call'.pc = "open" /\ call'.opens = 1
          /\ call'.pc = "open" =>
                /\ call'.url = call'.arg
                /\ client'.is_deprecated_endpoint = (call'.arg.path = LegacyPath)
          /\ (call.pc = "open" /\ client'.connected) =>
                /\ client'.websocket_url = call.arg
                /\ socks'[client'.ws].status = "open"
                /\ socks'[client'.ws].deprecated = (call.arg.path = LegacyPath)]_vars

\* connected to the session-based URL the caller passed (it carries no
\* token of a session of the agent), while the cache offers a session
C32_Witness ==
    /\ call.op = "connect" /\ call.pc = "done" /\ call.result = "ok"
    /\ call.creates = 0 /\ call.opens = 1
    /\ client.connected
    /\ client.websocket_url = [path |-> SessionPath, host |-> ClientHost, token |-> 0]
    /\ ~client.is_deprecated_endpoint
    /\ hass_data[ClientEntry].latest_session # NoSession

\* C33: a key combo sent over the deprecated endpoint is one keyboard
\* message, and its keys are the key names as the caller passed them (read
\* without regard to case), of every key that is a modifier or that
\* _map_key_name_to_code knows: the modifiers first, then the other keys,
\* each group in the order of the input.
C33_LegacyKeysOriginalNames ==
    LET keys == call.args.keys
        modifiers == SelectSeq(keys, LAMBDA k : ModifierOf(k) # "")
        others == SelectSeq(keys, LAMBDA k : ModifierOf(k) = "" /\ MapKeyNameToCode(k) # 0)
        names == modifiers \o others
    IN  /\ \A i \in 1..Len(sent) :
              sent[i].msg.type = "keyboard" =>
                 /\ Len(sent) = 1
                 /\ sent[i].msg.keys = [j \in 1..Len(names) |-> Upper(names[j])]
        /\ ( /\ call.op = "send_key_combo" /\ call.pc = "done" /\ call.result = "ok"
             /\ client.is_deprecated_endpoint
             /\ modifiers \o others # <<>> ) =>
                Len(sent) = 1 /\ sent[1].msg.type = "keyboard"

\* C34 as the specification states it: a button event with a button, sent
\* over the session-based endpoint, is never rejected and is one
\* pointer_button message with the button in lower case; its action is the
\* action passed when that is "down" or "up", and "down" for any other
\* value and for none.
C34_ButtonToggleAsStated ==
    LET a == call.args
        button == IF a.button = Some("LEFT") THEN "left" ELSE "right"
        action == IF a.dx \in {Some("down"), Some("up")} THEN a.dx[1] ELSE "down"
    IN  ( /\ call.op = "send_pointer_event" /\ a.event_type = "button"
          /\ a.button # None ) =>
           /\ call.result # "ValueError"
           /\ \A i \in 1..Len(sent) :
                 sent[i].msg.type = "pointer_button" =>
                    /\ Len(sent) = 1
                    /\ sent[i].msg = [BlankMsg EXCEPT !.type = "pointer_button",
                                                      !.button = button,
                                                      !.action = action]
           /\ ( call.pc = "done" /\ call.result = "ok"
                /\ ~client.is_deprecated_endpoint ) =>
                   Len(sent) = 1 /\ sent[1].msg.type = "pointer_button"

\* C34, amended: the action passed is read without regard to case ("UP" is
\* sent as "up"); a value that is neither "down" nor "up" in any case, and
\* no value, are sent as "down".
C34_ButtonToggle ==
    LET a == call.args
        button == IF a.button = Some("LEFT") THEN "left" ELSE "right"
        action == IF a.dx = Some("down") THEN "down"
                  ELSE IF a.dx \in {Some("up"), Some("UP")} THEN "up"
                  ELSE "down"
    IN  ( /\ call.op = "send_pointer_event" /\ a.event_type = "button"
          /\ a.button # None ) =>
           /\ call.result # "ValueError"
           /\ \A i \in 1..Len(sent) :
                 sent[i].msg.type = "pointer_button" =>
                    /\ Len(sent) = 1
                    /\ sent[i].msg = [BlankMsg EXCEPT !.type = "pointer_button",
                                                      !.button = button,
                                                      !.action = action]
           /\ ( call.pc = "done" /\ call.result = "ok"
                /\ ~client.is_deprecated_endpoint ) =>
                   Len(sent) = 1 /\ sent[1].msg.type = "pointer_button"

\* a button event with the action "toggle" has ended well: one message, the
\* action "down"
C34_Witness ==
    /\ call.op = "send_pointer_event" /\ call.pc = "done" /\ call.result = "ok"
    /\ call.args.event_type = "button"
    /\ call.args.dx = Some("toggle")
    /\ call.args.button = Some("LEFT")
    /\ Len(sent) = 1
    /\ sent[1].msg.type = "pointer_button"
    /\ sent[1].msg.button = "left"
    /\ sent[1].msg.action = "down"

\* C35: a send operation that is in flight ends, with its result for the
\* caller, when each of its awaits ends; its retry loop calls async_connect
\* no more than max_retries times.
C35_SendTerminates ==
    /\ [](call.op \in SendOps => call.connects <= max_retries /\ call.attempt < max_retries)
    /\ (call.op \in SendOps /\ call.pc \notin {"idle", "done"}) ~>
          (call.pc = "done" /\ call.result # "")

\* a send operation has ended well after the third connect of its retry loop
C35_Witness ==
    /\ call.op \in SendOps /\ call.pc = "done" /\ call.result = "ok"
    /\ call.connects = max_retries
    /\ sent # <<>>

\* C36: the entry_data of every entry keeps the host, the port, the
\* api_client and the ws_client it was set up with, whatever session
\* resolution does.
C36_OnlySessionFieldsChange ==
    \A e \in Entries : hass_data[e].host = e /\ hass_data[e].ws_client = e

\* C37: a send_str that raises leaves the client flagged as not connected;
\* a message goes on the wire only on the socket of a client that is
\* flagged as connected; and the flag is set again only by a ws_connect
\* that has returned another socket, newly opened.  So no message follows a
\* failed send_str on the same socket.
C37_NoSendOnFailedSocket ==
    [][/\ (call.pc = "send" /\ call'.pc = "done" /\ call'.result = "SendError") =>
             ~client'.connected
       /\ Len(sent') = Len(sent) + 1 =>
             /\ client.connected
             /\ sent'[Len(sent')].sock = client.ws
             /\ socks[client.ws].status = "open"
       /\ (~client.connected /\ client'.connected) =>
             /\ call.pc = "open"
             /\ client'.ws # 0 /\ client'.ws # client.ws
             /\ socks[client'.ws].status = "free"
             /\ socks'[client'.ws].status = "open"]_vars

\* the first call, a click, put "down" on the wire and its second send_str
\* failed; the message of the next call went to another socket
C37_Witness ==
    /\ Len(sent) >= 2
    /\ sent[1].call = 1 /\ sent[1].msg.type = "pointer_button"
    /\ sent[1].msg.action = "down"
    /\ sent[2].call = 2
    /\ sent[2].sock # sent[1].sock

\* C38: a send operation called with arguments it rejects (a move without
\* dx and dy, no keys) on a client that is not connected starts with
\* async_connect and its session resolution; the ValueError is raised only
\* with the client connected on a socket that is not closed, and nothing is
\* sent; when the last connect attempt of the retry loop has failed too,
\* the caller gets the connection error.
C38_ValidationAfterConnect ==
    /\ []( ( /\ call.op \in SendOps /\ call.pc = "done"
             /\ Encode(call.op, TRUE, call.args).err # ""
             /\ Encode(call.op, FALSE, call.args).err # ""
             /\ call.connects = max_retries /\ ~client.connected ) =>
               call.result = "ConnectionFailed" )
    /\ [][/\ ( /\ call.pc = "idle" /\ call'.op \in SendOps
                /\ Encode(call'.op, TRUE, call'.args).err # ""
                /\ Encode(call'.op, FALSE, call'.args).err # ""
                /\ (~client.connected \/ client.ws = 0
                      \/ WsClosed(socks, client.ws)) ) =>
                  /\ call'.pc \in {"create", "open"}
                  /\ call'.connects = 1
          /\ (call.pc # "done" /\ call'.result = "ValueError") =>
                  /\ client'.connected
                  /\ client'.ws # 0 /\ ~WsClosed(socks', client'.ws)
                  /\ sent' = sent]_vars

\* a move without dx and dy, on a client that was not connected: a session
\* was asked for, three connects have failed, the caller has the connection
\* error
C38_Witness ==
    /\ call.op = "send_pointer_event" /\ call.pc = "done"
    /\ call.args = PointerArgs("move", None, None, None)
    /\ call.connects = max_retries /\ call.creates >= 1 /\ call.opens = max_retries
    /\ call.result = "ConnectionFailed"
    /\ ~client.connected

\* C39: at most one receive task is scheduled or running at any time, and
\* it is the task self._receive_task refers to; a task is scheduled only
\* while no task is recorded, and a task that ends clears no reference but
\* the one to itself.
C39_OneReceiveTask ==
    /\ [](/\ Cardinality({t \in 1..TaskSlots :
                             tasks[t].status \in {"scheduled", "running"}}) <= 1
          /\ \A t \in 1..TaskSlots :
                tasks[t].status \in {"scheduled", "running"} =>
                   client.receive_task = t)
    /\ [][\A t \in 1..TaskSlots :
             /\ (tasks'[t].status = "scheduled" /\ tasks[t].status # "scheduled") =>
                   client.receive_task = 0 /\ client'.receive_task = t
             /\ ( /\ tasks[t].status \in {"scheduled", "running"}
                  /\ tasks'[t].status \notin {"scheduled", "running"}
                  /\ client'.receive_task # client.receive_task ) =>
                   client.receive_task = t /\ client'.receive_task = 0]_vars

\* the loop of a second connection runs: the client is on the socket it
\* opened while it still held an earlier one, and the one task there is
\* reads that socket
C39_Witness ==
    /\ client.ws = 2 /\ client.connected
    /\ socks[2].status = "open"
    /\ client.receive_task # 0
    /\ tasks[client.receive_task].status = "running"
    /\ tasks[client.receive_task].sock = 2
    /\ Cardinality({t \in 1..TaskSlots : tasks[t].status # "free"}) = 1

\* C40: set_frame_callback changes the stored callback and nothing else.
\* While no receive task is scheduled or running no message is handled, so
\* no callback is called, and a task comes only with an async_connect that
\* has opened another socket.
C40_CallbackOnlyStored ==
    [][/\ client'.frame_callback # client.frame_callback =>
             /\ client' = [client EXCEPT !.frame_callback = client'.frame_callback]
             /\ UNCHANGED <<call, socks, tasks, frames, sent, hass_data, session_dicts>>
       /\ (\A t \in 1..TaskSlots : tasks[t].status \notin {"scheduled", "running"}) =>
             /\ frames' = frames
             /\ (\E t \in 1..TaskSlots : tasks'[t].status \in {"scheduled", "running"}) =>
                   /\ call.pc = "open"
                   /\ client.frame_callback
                   /\ client'.ws # 0 /\ client'.ws # client.ws]_vars

\* a callback is registered on a client that has connected without one:
\* the socket is open, no receive task is there, no message was handled
C40_Witness ==
    /\ client.connected /\ client.ws # 0
    /\ socks[client.ws].status = "open"
    /\ client.frame_callback
    /\ client.receive_task = 0
    /\ \A t \in 1..TaskSlots : tasks[t].status = "free"
    /\ frames = <<>>
    /\ call.pc = "idle"

====
